---- MODULE Spec2Model ----
(***************************************************************************)
(* A model of the weather web application: the upstream gateway (getJSON), *)
(* the geocoder, the forecast aggregator (GetWeather), and the report      *)
(* cache with its request handlers and background sweep.                   *)
(*                                                                         *)
(* Strings are TLA+ strings.  An error message is a sequence of word       *)
(* tokens, so that strings.Contains becomes a search for a contiguous run  *)
(* of tokens.  Times are integers (ticks of the wall clock).               *)
(***************************************************************************)
EXTENDS Integers, Sequences, FiniteSets, TLC

\* ------------------------------------------------------------------ bounds

\* Largest value of the wall clock.
MaxClock == 3

\* Tokens of an error body kept by io.LimitReader (512 bytes in the source).
BodyLimit == 4

\* ------------------------------------------------------- program constants

\* cacheTTL (10 minutes in the source), in ticks.
cacheTTL == 1

\* cacheMaxSize (200 entries in the source).
cacheMaxSize == 2

\* const maxAttempts in getJSON.
maxAttempts == 2

StatusOK == 200
StatusBadRequest == 400
StatusNotFound == 404
StatusMethodNotAllowed == 405
StatusBadGateway == 502

\* The handler's ceiling on len(city).
MaxCityLen == 100

geoURL == "https://geocoding-api.open-meteo.com/v1/search"
forecastURL == "https://api.open-meteo.com/v1/forecast"

\* ------------------------------------------------------------------ errors

\* A Go error value: nil, or a message (a sequence of tokens).
NilErr == [nil |-> TRUE, msg |-> <<>>]

Errorf(msg) == [nil |-> FALSE, msg |-> msg]

\* fmt's %d for the status codes an upstream answers with.
Itoa(n) ==
  CASE n = 200 -> "200"
    [] n = 204 -> "204"
    [] n = 404 -> "404"
    [] n = 414 -> "414"
    [] n = 500 -> "500"
    [] n = 504 -> "504"
    [] OTHER -> "0"

\* fmt's %q for a string.
Quote(s) == "\"" \o s \o "\""

\* strings.Contains(msg, needle), token-wise.
Contains(msg, needle) ==
  \E i \in 1..(Len(msg) - Len(needle) + 1) :
    SubSeq(msg, i, i + Len(needle) - 1) = needle

Min(a, b) == IF a < b THEN a ELSE b

\* io.ReadAll(io.LimitReader(resp.Body, 512)): the body, cut at the limit.
LimitRead(body) == SubSeq(body, 1, Min(Len(body), BodyLimit))

\* ------------------------------------------------------------------- times

\* A timestamp of the forecast service is a string in the layout
\* "2006-01-02T15:04".  An instant is an integer: the minutes since
\* 2024-06-01T00:00 in the location of the place.  All timestamps of one
\* answer are parsed in the same location, and no change of the location's
\* offset falls within the days modelled.

Digit(n) ==
  CASE n = 0 -> "0" [] n = 1 -> "1" [] n = 2 -> "2" [] n = 3 -> "3"
    [] n = 4 -> "4" [] n = 5 -> "5" [] n = 6 -> "6" [] n = 7 -> "7"
    [] n = 8 -> "8" [] OTHER -> "9"

\* Two digits, as the layout elements 15 and 04 print them.
Two(n) == Digit(n \div 10) \o Digit(n % 10)

\* The dates, hours and minutes the timestamps of this model are made of.
DayText == << "2024-06-01", "2024-06-02" >>

ModelDays == DOMAIN DayText

ModelHours == 0..23

ModelMinutes == { 0, 30 }

\* The timestamp of day d at h:m, and the instant it names.
Stamp(d, h, m) == DayText[d] \o "T" \o Two(h) \o ":" \o Two(m)

InstantOf(d, h, m) == (d - 1) * 1440 + h * 60 + m

\* The zero time.Time (January 1 of year 1), which a failed parse returns.
ZeroInstant == -1064000000

\* The largest time.Duration (2^63 - 1 nanoseconds), in minutes: Time.Sub
\* returns it, or its negative, when the difference does not fit.
MaxDuration == 153722867

\* Every timestamp of the model with the instant it parses to.
ParseTable ==
  { [text |-> Stamp(d, h, m), t |-> InstantOf(d, h, m)] :
      d \in ModelDays, h \in ModelHours, m \in ModelMinutes }

\* time.ParseInLocation(layout, s, tz): the instant, or the zero time and an
\* error for a string that is not in the layout.
ParseInLocation(s) ==
  IF \E e \in ParseTable : e.text = s
  THEN [ok |-> TRUE, t |-> (CHOOSE e \in ParseTable : e.text = s).t]
  ELSE [ok |-> FALSE, t |-> ZeroInstant]

\* a.Sub(b).Minutes(), whole minutes.
SubMinutes(a, b) ==
  LET d == a - b
  IN  IF d > MaxDuration THEN MaxDuration
      ELSE IF d < -MaxDuration THEN -MaxDuration
      ELSE d

\* t.Format("15:04").
FormatClock(t) ==
  IF t = ZeroInstant THEN "00:00"
  ELSE Two((t % 1440) \div 60) \o ":" \o Two(t % 60)

\* -------------------------------------------------------- upstream answers

\* What one HTTP GET can yield: a network-level failure (no response), or a
\* response with a status and a body; a 200 body decodes to val or does not.
NetFail(text) ==
  [kind |-> "net", text |-> text, status |-> 0, json |-> FALSE, val |-> <<>>]

HttpErr(status, body) ==
  [kind |-> "http", text |-> body, status |-> status, json |-> FALSE, val |-> <<>>]

BadJSON(text) ==
  [kind |-> "http", text |-> text, status |-> 200, json |-> FALSE, val |-> <<>>]

OkJSON(val) ==
  [kind |-> "http", text |-> <<>>, status |-> 200, json |-> TRUE, val |-> val]

NetFails ==
  { NetFail(<<"connection", "refused">>),
    NetFail(<<"context", "deadline", "exceeded">>) }

HttpErrs ==
  { HttpErr(500, <<"internal", "server", "error">>),
    HttpErr(404, <<"resource", "not", "found">>),
    HttpErr(414, <<"request", "uri", "too", "long">>),
    HttpErr(504, <<"gateway", "timeout", "while", "contacting", "backend">>),
    HttpErr(204, <<>>) }

BadJSONs == { BadJSON(<<"unexpected", "end", "of", "JSON", "input">>) }

\* GeoLocation values the geocoding service may return.
LocRio ==
  [Name |-> "Rio de Janeiro", Latitude |-> -23, Longitude |-> -43,
   Country |-> "Brazil", CountryCode |-> "BR", Timezone |-> "America/Sao_Paulo"]

LocUlm ==
  [Name |-> "Ulm", Latitude |-> 48, Longitude |-> 10,
   Country |-> "Germany", CountryCode |-> "DE", Timezone |-> "Europe/Berlin"]

\* geoResponse.Results of a decodable answer.
GeoResults == { <<>>, <<LocUlm, LocRio>> }

GeoResp == NetFails \cup HttpErrs \cup BadJSONs \cup { OkJSON(r) : r \in GeoResults }

\* dailyRaw: the arrays of the daily block.
dailyRaw(time, code, tempMax, tempMin, windMax, precip, sunrise, sunset) ==
  [Time |-> time, WeatherCode |-> code, TempMax |-> tempMax, TempMin |-> tempMin,
   WindMax |-> windMax, PrecipProbMax |-> precip,
   Sunrise |-> sunrise, Sunset |-> sunset]

\* hourlyRaw: the arrays of the hourly block.
hourlyRaw(time, temperature, precip, code, windSpeed) ==
  [Time |-> time, Temperature |-> temperature, PrecipProb |-> precip,
   WeatherCode |-> code, WindSpeed |-> windSpeed]

\* forecastRaw: the current block (its time, temperature and weather code),
\* the daily block and the hourly block.
forecastRaw(time, temperature, code, daily, hourly) ==
  [Current |-> [Time |-> time, Temperature |-> temperature, WeatherCode |-> code],
   Daily |-> daily, Hourly |-> hourly]

\* A daily block of two days with every array of the same length.
AlignedDaily ==
  dailyRaw(<<"2024-06-01", "2024-06-02">>, <<3, 61>>, <<2100, 1900>>,
           <<1200, 1100>>, <<1500, 2000>>, <<10, 80>>,
           <<Stamp(1, 6, 0), Stamp(2, 6, 0)>>, <<Stamp(1, 18, 0), Stamp(2, 18, 0)>>)

\* An hourly block from one hour before the current time on.
AlignedHourly ==
  hourlyRaw(<<Stamp(1, 11, 0), Stamp(1, 12, 0), Stamp(1, 13, 0)>>,
            <<1800, 1900, 2000>>, <<0, 10, 20>>, <<3, 3, 61>>, <<1000, 1100, 1200>>)

\* The temperatures of the current block.
Temps == { 10, 12 }

\* forecastRaw of a decodable answer.
ForecastRaws ==
  { forecastRaw(Stamp(1, 12, 0), t, 3, AlignedDaily, AlignedHourly) : t \in Temps }

ForecastResp ==
  NetFails \cup HttpErrs \cup BadJSONs \cup { OkJSON(r) : r \in ForecastRaws }

\* --------------------------------------------------------- Upstream Gateway

\* One entry of the request trace of a call: an HTTP GET or the backoff sleep.
LogGet(url) == [op |-> "GET", url |-> url]

LogSleep(url) == [op |-> "sleep", url |-> url]

\* getJSON retrying on a non-200 status as it does on a network failure.
RECURSIVE getJSONLoopRetryStatus(_, _, _, _, _)
getJSONLoopRetryStatus(url, resps, attempt, lastErr, log) ==
  IF attempt >= maxAttempts
  THEN [err |-> lastErr, val |-> <<>>, log |-> log]
  ELSE
    LET slept == IF attempt > 0 THEN Append(log, LogSleep(url)) ELSE log
        log2 == Append(slept, LogGet(url))
        resp == resps[attempt + 1]
    IN  IF resp.kind = "net"
        THEN getJSONLoopRetryStatus(url, resps, attempt + 1,
                         Errorf(<<"request", "failed", ":">> \o resp.text), log2)
        ELSE IF resp.status # StatusOK
        THEN getJSONLoopRetryStatus(url, resps, attempt + 1,
                         Errorf(<<"API", "error", Itoa(resp.status), ":">>
                                \o LimitRead(resp.text)), log2)
        ELSE IF ~resp.json
        THEN [err |-> Errorf(<<"decode", "failed", ":">> \o resp.text),
              val |-> <<>>, log |-> log2]
        ELSE [err |-> NilErr, val |-> resp.val, log |-> log2]

\* Client.getJSON, from the top of loop iteration `attempt` on.  resps[i] is
\* what the i-th HTTP GET of this call yields.  The result is the returned
\* error, the decoded value (meaningful when the error is nil) and the trace.
RECURSIVE getJSONLoop(_, _, _, _, _)
getJSONLoop(url, resps, attempt, lastErr, log) ==
  IF attempt >= maxAttempts
  THEN [err |-> lastErr, val |-> <<>>, log |-> log]
  ELSE
    LET slept == IF attempt > 0 THEN Append(log, LogSleep(url)) ELSE log
        log2 == Append(slept, LogGet(url))
        resp == resps[attempt + 1]
    IN  IF resp.kind = "net"
        THEN getJSONLoop(url, resps, attempt + 1,
                         Errorf(<<"request", "failed", ":">> \o resp.text), log2)
        ELSE IF resp.status # StatusOK
        THEN [err |-> Errorf(<<"API", "error", Itoa(resp.status), ":">>
                             \o LimitRead(resp.text)),
              val |-> <<>>, log |-> log2]
        ELSE IF ~resp.json
        THEN [err |-> Errorf(<<"decode", "failed", ":">> \o resp.text),
              val |-> <<>>, log |-> log2]
        ELSE [err |-> NilErr, val |-> resp.val, log |-> log2]

getJSON(url, resps) == getJSONLoop(url, resps, 0, NilErr, <<>>)

\* fmt.Errorf("<prefix>: %w", err).
Wrap(prefix, err) == Errorf(<<prefix, ":">> \o err.msg)

\* ----------------------------------------------------------------- Geocoder

NoLoc ==
  [Name |-> "", Latitude |-> 0, Longitude |-> 0,
   Country |-> "", CountryCode |-> "", Timezone |-> ""]

\* url.QueryEscape on the place names and timezones of this model: a space
\* becomes "+", a slash "%2F".
QueryEscape(s) ==
  CASE s = "St Ives" -> "St+Ives"
    [] s = "st ives" -> "st+ives"
    [] s = "America/Sao_Paulo" -> "America%2FSao_Paulo"
    [] s = "Europe/Berlin" -> "Europe%2FBerlin"
    [] OTHER -> s

\* The URL Geocode asks for.
GeocodeURL(city) == geoURL \o "?name=" \o QueryEscape(city) \o "&count=1"

\* Geocode reporting an empty result set the way it reports a gateway error.
GeocodeWrapsEmpty(city, resps) ==
  LET r == getJSON(GeocodeURL(city), resps)
  IN  IF ~r.err.nil
      THEN [loc |-> NoLoc, err |-> Wrap("geocode", r.err), log |-> r.log]
      ELSE IF Len(r.val) = 0
      THEN [loc |-> NoLoc,
            err |-> Wrap("geocode", Errorf(<<"no", "results">>)),
            log |-> r.log]
      ELSE [loc |-> r.val[1], err |-> NilErr, log |-> r.log]

\* Client.Geocode: the location (meaningful when err is nil), the error and
\* the request trace.
Geocode(city, resps) ==
  LET r == getJSON(GeocodeURL(city), resps)
  IN  IF ~r.err.nil
      THEN [loc |-> NoLoc, err |-> Wrap("geocode", r.err), log |-> r.log]
      ELSE IF Len(r.val) = 0
      THEN [loc |-> NoLoc,
            err |-> Errorf(<<"city", Quote(city), "not", "found">>),
            log |-> r.log]
      ELSE [loc |-> r.val[1], err |-> NilErr, log |-> r.log]

\* --------------------------------------------------------- Reverse geocoder

reverseURL == "https://nominatim.openstreetmap.org/reverse"

\* fmt's %.6f and %.4f for the coordinates of this model.
Ftoa(x, digits) ==
  LET frac == IF digits = 6 THEN ".000000" ELSE ".0000"
  IN  CASE x = 48 -> "48" \o frac
        [] x = 10 -> "10" \o frac
        [] x = -23 -> "-23" \o frac
        [] x = -43 -> "-43" \o frac
        [] OTHER -> "0" \o frac

\* The URL ReverseGeocode asks for.
ReverseURL(lat, lon) ==
  reverseURL \o "?lat=" \o Ftoa(lat, 6) \o "&lon=" \o Ftoa(lon, 6)
             \o "&format=json&zoom=10&addressdetails=1"

\* The decoded answer of the reverse geocoding service.  A name is a sequence
\* of characters; the empty sequence is the empty string.
ReverseResult(display, city, town, village, municipality, county) ==
  [DisplayName |-> display,
   Address |-> [City |-> city, Town |-> town, Village |-> village,
                Municipality |-> municipality, County |-> county]]

\* The loop over the candidates: the first one that is not empty, or the
\* empty name when there is none.
RECURSIVE FirstCandidate(_, _)
FirstCandidate(candidates, i) ==
  IF i > Len(candidates) THEN <<>>
  ELSE IF candidates[i] # <<>> THEN candidates[i]
  ELSE FirstCandidate(candidates, i + 1)

\* The loop over DisplayName: the index of its first comma, 0 without one.
RECURSIVE CommaIndex(_, _)
CommaIndex(name, i) ==
  IF i > Len(name) THEN 0
  ELSE IF name[i] = "," THEN i
  ELSE CommaIndex(name, i + 1)

\* ReverseGeocode that gives up when the five address fields are empty.
ReverseGeocodeNoFallback(lat, lon, resp) ==
  IF resp.kind = "net"
  THEN [name |-> <<>>,
        err |-> Errorf(<<"reverse", "geocode", "request", "failed", ":">> \o resp.text)]
  ELSE IF resp.status # StatusOK
  THEN [name |-> <<>>,
        err |-> Errorf(<<"reverse", "geocode", ":", "HTTP", Itoa(resp.status)>>)]
  ELSE IF ~resp.json
  THEN [name |-> <<>>,
        err |-> Errorf(<<"reverse", "geocode", "decode", ":">> \o resp.text)]
  ELSE
    LET addr == resp.val.Address
        candidate == FirstCandidate(<<addr.City, addr.Town, addr.Village,
                                      addr.Municipality, addr.County>>, 1)
    IN  IF candidate # <<>>
        THEN [name |-> candidate, err |-> NilErr]
        ELSE [name |-> <<>>,
              err |-> Errorf(<<"no", "city", "found", "for", "coordinates",
                               Ftoa(lat, 4) \o "," \o Ftoa(lon, 4)>>)]

\* Client.ReverseGeocode: the name (meaningful when err is nil) and the error.
\* resp is what the one HTTP request yields; there is no retry here.
ReverseGeocode(lat, lon, resp) ==
  IF resp.kind = "net"
  THEN [name |-> <<>>,
        err |-> Errorf(<<"reverse", "geocode", "request", "failed", ":">> \o resp.text)]
  ELSE IF resp.status # StatusOK
  THEN [name |-> <<>>,
        err |-> Errorf(<<"reverse", "geocode", ":", "HTTP", Itoa(resp.status)>>)]
  ELSE IF ~resp.json
  THEN [name |-> <<>>,
        err |-> Errorf(<<"reverse", "geocode", "decode", ":">> \o resp.text)]
  ELSE
    LET addr == resp.val.Address
        display == resp.val.DisplayName
        candidate == FirstCandidate(<<addr.City, addr.Town, addr.Village,
                                      addr.Municipality, addr.County>>, 1)
        idx == CommaIndex(display, 1)
    IN  IF candidate # <<>>
        THEN [name |-> candidate, err |-> NilErr]
        ELSE IF display # <<>>
        THEN IF idx > 0
             THEN [name |-> SubSeq(display, 1, idx - 1), err |-> NilErr]
             ELSE [name |-> display, err |-> NilErr]
        ELSE [name |-> <<>>,
              err |-> Errorf(<<"no", "city", "found", "for", "coordinates",
                               Ftoa(lat, 4) \o "," \o Ftoa(lon, 4)>>)]

\* What the reverse geocoding service may answer.
DisplayNames ==
  { <<>>,
    <<"U", "l", "m">>,
    <<"A", "u", ",", " ", "D", "E">>,
    <<",", " ", "D", "E">>,
    <<"a", ",", "b", ",", "c">> }

ReverseResults ==
  { ReverseResult(d, c, t, v, m, k) :
      d \in DisplayNames,
      c \in { <<>>, <<"U", "l", "m">> },
      t \in { <<>>, <<"B", "a", "d">> },
      v \in { <<>>, <<"A", "u">> },
      m \in { <<>>, <<"M", "u", "n">> },
      k \in { <<>>, <<"A", "l", "b">> } }

ReverseResp ==
  NetFails \cup HttpErrs \cup BadJSONs \cup { OkJSON(r) : r \in ReverseResults }

\* --------------------------------------------------------- Consensus Engine

\* Numbers that are float64 in the source (temperature, wind speed, pressure)
\* are integers here, in hundredths of the unit: 1005 is 10.05.

\* The models asked, in their configured order.
forecastModels ==
  << [Name |-> "ECMWF", Param |-> "ecmwf_ifs025"],
     [Name |-> "ICON", Param |-> "icon_seamless"],
     [Name |-> "Meteo-France", Param |-> "meteofrance_seamless"],
     [Name |-> "MET Norway", Param |-> "metno_seamless"] >>

\* A pointer field of modelCurrentRaw: nil (JSON null or absent) or a value.
NilPtr == [set |-> FALSE, v |-> 0]

Ptr(x) == [set |-> TRUE, v |-> x]

\* modelResponse.Current of a decodable answer.
modelCurrentRaw(temp, humidity, wind, pressure, code) ==
  [Current |-> [Temp |-> temp, Humidity |-> humidity, Wind |-> wind,
                Pressure |-> pressure, WMOCode |-> code]]

\* The zero ModelReading, as make([]ModelReading, n) fills the slice.
ZeroReading ==
  [Model |-> "", Temp |-> 0, Humidity |-> 0, WindSpeed |-> 0, Pressure |-> 0,
   WeatherCode |-> 0, Available |-> FALSE, Err |-> <<>>]

\* The URL fetchModel asks for.
ModelURL(loc, tempUnit, windUnit, modelParam) ==
  forecastURL \o "?latitude=" \o Ftoa(loc.Latitude, 4)
              \o "&longitude=" \o Ftoa(loc.Longitude, 4)
              \o "&temperature_unit=" \o tempUnit \o "&wind_speed_unit=" \o windUnit
              \o "&timezone=" \o QueryEscape(loc.Timezone) \o "&models=" \o modelParam

\* fetchModel giving a reading without a temperature the value 0.
fetchModelLenient(model, loc, tempUnit, windUnit, resps) ==
  LET r == [ZeroReading EXCEPT !.Model = model.Name]
      g == getJSON(ModelURL(loc, tempUnit, windUnit, model.Param), resps)
  IN  IF ~g.err.nil
      THEN [reading |-> [r EXCEPT !.Err = g.err.msg], log |-> g.log]
      ELSE
        LET cur == g.val.Current
        IN  [reading |-> [r EXCEPT
                            !.Temp = cur.Temp.v,
                            !.Humidity = cur.Humidity.v,
                            !.WindSpeed = IF cur.Wind.set THEN cur.Wind.v ELSE 0,
                            !.Pressure = IF cur.Pressure.set THEN cur.Pressure.v ELSE 0,
                            !.WeatherCode = IF cur.WMOCode.set THEN cur.WMOCode.v ELSE 0,
                            !.Available = TRUE],
             log |-> g.log]

\* fetchModel: the reading of one model and the request trace.  resps[i] is
\* what the i-th HTTP GET of its getJSON call yields.
fetchModel(model, loc, tempUnit, windUnit, resps) ==
  LET r == [ZeroReading EXCEPT !.Model = model.Name]
      g == getJSON(ModelURL(loc, tempUnit, windUnit, model.Param), resps)
  IN  IF ~g.err.nil
      THEN [reading |-> [r EXCEPT !.Err = g.err.msg], log |-> g.log]
      ELSE
        LET cur == g.val.Current
        IN  IF ~cur.Temp.set \/ ~cur.Humidity.set
            THEN [reading |-> [r EXCEPT !.Err = <<"incomplete", "data">>],
                  log |-> g.log]
            ELSE [reading |-> [r EXCEPT
                                 !.Temp = cur.Temp.v,
                                 !.Humidity = cur.Humidity.v,
                                 !.WindSpeed = IF cur.Wind.set THEN cur.Wind.v ELSE 0,
                                 !.Pressure = IF cur.Pressure.set THEN cur.Pressure.v ELSE 0,
                                 !.WeatherCode = IF cur.WMOCode.set THEN cur.WMOCode.v ELSE 0,
                                 !.Available = TRUE],
                  log |-> g.log]

\* Go's integer division: the quotient truncated toward zero (b > 0).
TruncDiv(a, b) == IF a >= 0 THEN a \div b ELSE -((-a) \div b)

\* math.Round of the float64 nearest to n / d (d > 0): the nearest integer.
\* When n / d lies exactly halfway between two integers the float64 that
\* math.Round is handed lies a representation error to one side of it or the
\* other (most decimal fractions are not float64 values), so that either
\* neighbour can come out: away says which.
RoundDiv(n, d, away) ==
  LET m == IF n >= 0 THEN n ELSE -n
      q == m \div d
      r == m % d
      up == 2 * r > d \/ (2 * r = d /\ away)
      a == IF up THEN q + 1 ELSE q
  IN  IF n >= 0 THEN a ELSE -a

\* math.Round(x*10) / 10 for x = n / d: x to one decimal.
Round1(n, d, away) == 10 * RoundDiv(n, 10 * d, away)

\* How the halfway cases of one summary come out: for the least and the
\* greatest temperature and for the three means.
Ties ==
  [min : BOOLEAN, max : BOOLEAN, temp : BOOLEAN, wind : BOOLEAN, pressure : BOOLEAN]

\* Every halfway case rounded away from zero.
TiesAway ==
  [min |-> TRUE, max |-> TRUE, temp |-> TRUE, wind |-> TRUE, pressure |-> TRUE]

\* math.MaxFloat64: above every temperature.
MaxFloat64 == 1000000

\* The sums and extremes before the loop over the readings.
ZeroSums ==
  [count |-> 0, sumTemp |-> 0, sumHumidity |-> 0, sumWind |-> 0,
   sumPressure |-> 0, minTemp |-> MaxFloat64, maxTemp |-> -MaxFloat64]

\* The loop over the readings, from reading i on.
RECURSIVE SumReadings(_, _, _)
SumReadings(readings, i, s) ==
  IF i > Len(readings) THEN s
  ELSE
    LET r == readings[i]
    IN  IF ~r.Available
        THEN SumReadings(readings, i + 1, s)
        ELSE SumReadings(readings, i + 1,
                    [count |-> s.count + 1,
                     sumTemp |-> s.sumTemp + r.Temp,
                     sumHumidity |-> s.sumHumidity + r.Humidity,
                     sumWind |-> s.sumWind + r.WindSpeed,
                     sumPressure |-> s.sumPressure + r.Pressure,
                     minTemp |-> IF r.Temp < s.minTemp THEN r.Temp ELSE s.minTemp,
                     maxTemp |-> IF r.Temp > s.maxTemp THEN r.Temp ELSE s.maxTemp])

\* &ConsensusInfo{Models: readings}: every other field zero.
ZeroConsensus(readings) ==
  [Models |-> readings, AvailCount |-> 0,
   AvgTemp |-> 0, AvgHumidity |-> 0, AvgWind |-> 0, AvgPressure |-> 0,
   MinTemp |-> 0, MaxTemp |-> 0, Spread |-> 0,
   Agreement |-> "", AgreePct |-> 0]

\* A spread taken as minimum less maximum.
SpreadOfSwapped(maxT, minT) == Round1(minT - maxT, 1, TRUE)

\* cons.Spread: math.Round((cons.MaxTemp-cons.MinTemp)*10) / 10.
SpreadOf(maxT, minT) == Round1(maxT - minT, 1, TRUE)

\* A percentage left below zero.
AgreePctOfUnclamped(spread) == 100 - TruncDiv(spread * 12, 100)

\* pct := 100 - int(cons.Spread*12), raised to 0 when negative.
AgreePctOf(spread) ==
  LET pct == 100 - TruncDiv(spread * 12, 100)
  IN  IF pct < 0 THEN 0 ELSE pct

\* The switch on pct: the agreement label.
AgreementOf(pct) ==
  IF pct >= 80 THEN "High" ELSE IF pct >= 50 THEN "Moderate" ELSE "Low"

\* FetchConsensus after wg.Wait(): the summary of the readings.  Equal
\* float64 values round alike: the greatest temperature as the least when
\* they are the same, and the mean as both when it is computed without
\* error (one reading, or two equal ones).
ConsensusStats(readings, ties) ==
  LET s == SumReadings(readings, 1, ZeroSums)
      cons == ZeroConsensus(readings)
  IN  IF s.count = 0 THEN cons
      ELSE
        LET same == s.minTemp = s.maxTemp
            minT == Round1(s.minTemp, 1, ties.min)
            maxT == Round1(s.maxTemp, 1, IF same THEN ties.min ELSE ties.max)
            tieTemp == IF same /\ s.count <= 2 THEN ties.min ELSE ties.temp
            spread == SpreadOf(maxT, minT)
            pct == AgreePctOf(spread)
        IN  [cons EXCEPT
               !.AvailCount = s.count,
               !.MinTemp = minT,
               !.MaxTemp = maxT,
               !.AvgTemp = Round1(s.sumTemp, s.count, tieTemp),
               !.AvgHumidity = TruncDiv(s.sumHumidity, s.count),
               !.AvgWind = Round1(s.sumWind, s.count, ties.wind),
               !.AvgPressure = Round1(s.sumPressure, s.count, ties.pressure),
               !.Spread = spread,
               !.AgreePct = pct,
               !.Agreement = AgreementOf(pct)]

\* Client.FetchConsensus as a function of what the models answer: answers[i]
\* are the HTTP answers to the requests for model i.  The order in which the
\* goroutines finish does not enter: each writes its own element.
FetchConsensus(loc, tempUnit, windUnit, answers, ties) ==
  ConsensusStats([i \in 1..Len(forecastModels) |->
                    fetchModel(forecastModels[i], loc, tempUnit, windUnit,
                               answers[i]).reading],
                 ties)

\* What a model's endpoint may answer to a request that decodes.
ModelRaws ==
  { modelCurrentRaw(Ptr(1000), Ptr(50), Ptr(500), Ptr(101300), Ptr(3)),
    modelCurrentRaw(Ptr(1200), Ptr(51), Ptr(700), Ptr(101250), Ptr(61)),
    modelCurrentRaw(Ptr(1010), Ptr(51), NilPtr, NilPtr, NilPtr),
    modelCurrentRaw(Ptr(1095), Ptr(53), Ptr(520), Ptr(101310), Ptr(3)),
    modelCurrentRaw(Ptr(-250), Ptr(40), Ptr(1500), Ptr(99870), Ptr(71)),
    modelCurrentRaw(Ptr(1500), Ptr(45), Ptr(900), Ptr(101000), Ptr(2)),
    modelCurrentRaw(NilPtr, Ptr(50), Ptr(500), Ptr(101300), Ptr(3)),
    modelCurrentRaw(Ptr(1000), NilPtr, Ptr(500), Ptr(101300), Ptr(3)) }

\* What the HTTP GETs of one fetchModel call may yield: the answers to the
\* first request and to the retry.
ModelAnswers ==
  { <<NetFail(<<"connection", "refused">>), NetFail(<<"context", "deadline", "exceeded">>)>>,
    <<NetFail(<<"connection", "refused">>),
      OkJSON(modelCurrentRaw(Ptr(1000), Ptr(50), Ptr(500), Ptr(101300), Ptr(3)))>>,
    <<HttpErr(500, <<"internal", "server", "error">>),
      HttpErr(500, <<"internal", "server", "error">>)>>,
    <<BadJSON(<<"unexpected", "end", "of", "JSON", "input">>),
      BadJSON(<<"unexpected", "end", "of", "JSON", "input">>)>> }
  \cup { <<OkJSON(r), OkJSON(r)>> : r \in ModelRaws }

\* The answers of the calls followed goroutine by goroutine.
FewModelAnswers ==
  { <<NetFail(<<"connection", "refused">>), NetFail(<<"context", "deadline", "exceeded">>)>>,
    <<OkJSON(modelCurrentRaw(Ptr(1000), Ptr(50), Ptr(500), Ptr(101300), Ptr(3))),
      OkJSON(modelCurrentRaw(Ptr(1000), Ptr(50), Ptr(500), Ptr(101300), Ptr(3)))>>,
    <<OkJSON(modelCurrentRaw(Ptr(1200), Ptr(51), Ptr(700), Ptr(101250), Ptr(61))),
      OkJSON(modelCurrentRaw(Ptr(1200), Ptr(51), Ptr(700), Ptr(101250), Ptr(61)))>> }

\* The unit parameters GetWeather passes on.
UnitParams ==
  { [tempUnit |-> "celsius", windUnit |-> "kmh"],
    [tempUnit |-> "fahrenheit", windUnit |-> "mph"] }

\* ------------------------------------------------------ Forecast Aggregator

TempUnitSymbol(units) == IF units = "imperial" THEN "°F" ELSE "°C"

WindUnitLabel(units) == IF units = "imperial" THEN "mph" ELSE "km/h"

\* The nil *WeatherInfo.
NilInfo == [nil |-> TRUE]

\* The URL GetWeather asks the forecast service for.
ForecastURL(loc, tempUnit, windUnit) ==
  forecastURL \o "?latitude=" \o Ftoa(loc.Latitude, 4)
              \o "&longitude=" \o Ftoa(loc.Longitude, 4)
              \o "&current=temperature_2m,weather_code"
              \o "&hourly=temperature_2m,precipitation_probability,weather_code,wind_speed_10m"
              \o "&daily=weather_code,temperature_2m_max,temperature_2m_min,wind_speed_10m_max,precipitation_probability_max,sunrise,sunset"
              \o "&temperature_unit=" \o tempUnit \o "&wind_speed_unit=" \o windUnit
              \o "&timezone=" \o QueryEscape(loc.Timezone) \o "&forecast_days=5"

\* WMODescription: the description of a WMO weather code.
WMODescription(code) ==
  CASE code = 0 -> "Clear sky"
    [] code = 1 -> "Mainly clear"
    [] code = 2 -> "Partly cloudy"
    [] code = 3 -> "Overcast"
    [] code = 45 \/ code = 48 -> "Fog"
    [] code >= 51 /\ code <= 53 -> "Light drizzle"
    [] code = 55 -> "Dense drizzle"
    [] code = 61 -> "Slight rain"
    [] code = 63 -> "Moderate rain"
    [] code = 65 -> "Heavy rain"
    [] code = 71 -> "Slight snow"
    [] code = 73 -> "Moderate snow"
    [] code = 75 -> "Heavy snow"
    [] code = 77 -> "Snow grains"
    [] code >= 80 /\ code <= 82 -> "Rain showers"
    [] code >= 85 /\ code <= 86 -> "Snow showers"
    [] code = 95 -> "Thunderstorm"
    [] code = 96 \/ code = 99 -> "Thunderstorm with hail"
    [] OTHER -> "Unknown"

\* WMOIconClass: the icon class of a WMO weather code.
WMOIconClass(code) ==
  CASE code = 0 -> "wi-day-sunny"
    [] code = 1 -> "wi-day-sunny-overcast"
    [] code = 2 -> "wi-day-cloudy"
    [] code = 3 -> "wi-cloudy"
    [] code = 45 \/ code = 48 -> "wi-fog"
    [] code >= 51 /\ code <= 53 -> "wi-sprinkle"
    [] code = 55 -> "wi-rain-mix"
    [] code = 61 -> "wi-rain-mix"
    [] code = 63 -> "wi-rain"
    [] code = 65 -> "wi-rain-wind"
    [] code = 71 -> "wi-snow"
    [] code = 73 -> "wi-snow"
    [] code = 75 -> "wi-snow-wind"
    [] code = 77 -> "wi-snowflake-cold"
    [] code >= 80 /\ code <= 82 -> "wi-showers"
    [] code >= 85 /\ code <= 86 -> "wi-snow"
    [] code = 95 -> "wi-thunderstorm"
    [] code = 96 \/ code = 99 -> "wi-storm-showers"
    [] OTHER -> "wi-na"

\* safeInt and safeFloat: element i (from 0) of s, or 0 past its end.
safeInt(s, i) == IF i < Len(s) THEN s[i + 1] ELSE 0

safeFloat(s, i) == IF i < Len(s) THEN s[i + 1] ELSE 0

\* A percentage that is float64 in the source: the fraction num / den.
Pct(num, den) == [num |-> num, den |-> den]

\* A sun position that comes out at 100 before sunrise.
SunPositionWrapped(elapsed, daylightMins) ==
  IF daylightMins > 0
  THEN IF elapsed >= daylightMins \/ elapsed <= 0 THEN Pct(100, 1)
       ELSE Pct(elapsed * 100, daylightMins)
  ELSE Pct(0, 1)

\* positionPct in buildSunBar: elapsed / daylightMins * 100 held between 0
\* and 100 when daylightMins > 0, and 0 otherwise.  The two ends are taken
\* before the multiplication, which gives the same value.
SunPosition(elapsed, daylightMins) ==
  IF daylightMins > 0
  THEN IF elapsed >= daylightMins THEN Pct(100, 1)
       ELSE IF elapsed <= 0 THEN Pct(0, 1)
       ELSE Pct(elapsed * 100, daylightMins)
  ELSE Pct(0, 1)

\* The zero SunBar.
ZeroSunBar ==
  [SunriseTime |-> "", SunsetTime |-> "", CurrentTime |-> "",
   SunPositionPct |-> Pct(0, 1), IsDay |-> FALSE, DaylightHours |-> <<>>]

\* buildSunBar.  A timestamp that does not parse counts as the zero time.
\* DaylightHours is the pair printed as "%dh %dm".  The moon phase fields
\* are left out.
buildSunBar(currentTimeStr, sunriseStr, sunsetStr) ==
  LET sunrise == ParseInLocation(sunriseStr).t
      sunset == ParseInLocation(sunsetStr).t
      now == ParseInLocation(currentTimeStr).t
      daylightMins == SubMinutes(sunset, sunrise)
      h == TruncDiv(daylightMins, 60)
      m == daylightMins - 60 * h
  IN  [SunriseTime |-> FormatClock(sunrise),
       SunsetTime |-> FormatClock(sunset),
       CurrentTime |-> FormatClock(now),
       SunPositionPct |-> SunPosition(SubMinutes(now, sunrise), daylightMins),
       IsDay |-> (now > sunrise /\ now < sunset),
       DaylightHours |-> <<h, m>>]

\* The most points parseHourly returns.
MaxHourly == 24

\* The loop of parseHourly from entry i (from 0) on.
RECURSIVE HourlyLoop(_, _, _, _)
HourlyLoop(h, now, i, points) ==
  IF i >= Len(h.Time) THEN points
  ELSE
    LET p == ParseInLocation(h.Time[i + 1])
    IN  IF ~p.ok THEN HourlyLoop(h, now, i + 1, points)
        ELSE IF p.t < now THEN HourlyLoop(h, now, i + 1, points)
        ELSE IF Len(points) >= MaxHourly THEN points
        ELSE HourlyLoop(h, now, i + 1,
               Append(points,
                      [Time |-> FormatClock(p.t),
                       Temp |-> safeFloat(h.Temperature, i),
                       PrecipProb |-> safeInt(h.PrecipProb, i),
                       Description |-> WMODescription(safeInt(h.WeatherCode, i)),
                       Icon |-> WMOIconClass(safeInt(h.WeatherCode, i)),
                       WindSpeed |-> safeFloat(h.WindSpeed, i)]))

\* parseHourly going on with the zero time when the current time does not
\* parse.
parseHourlyLenient(h, currentTimeStr) ==
  HourlyLoop(h, ParseInLocation(currentTimeStr).t, 0, <<>>)

\* parseHourly: nil when the current time does not parse.
parseHourly(h, currentTimeStr) ==
  LET now == ParseInLocation(currentTimeStr)
  IN  IF ~now.ok THEN <<>> ELSE HourlyLoop(h, now.t, 0, <<>>)

\* The daily loop putting each day before the ones it has.
RECURSIVE DailyLoopNewestFirst(_, _, _)
DailyLoopNewestFirst(daily, i, days) ==
  IF i >= Len(daily.Time) THEN [days |-> days, panic |-> FALSE]
  ELSE IF i >= Len(daily.WeatherCode) \/ i >= Len(daily.TempMax)
  THEN [days |-> days, panic |-> FALSE]
  ELSE IF i >= Len(daily.TempMin) \/ i >= Len(daily.WindMax)
  THEN [days |-> days, panic |-> TRUE]
  ELSE DailyLoopNewestFirst(daily, i + 1,
         <<[Date |-> daily.Time[i + 1],
            Description |-> WMODescription(daily.WeatherCode[i + 1]),
            Icon |-> WMOIconClass(daily.WeatherCode[i + 1]),
            TempMax |-> daily.TempMax[i + 1],
            TempMin |-> daily.TempMin[i + 1],
            WindMax |-> daily.WindMax[i + 1],
            PrecipProb |-> IF i < Len(daily.PrecipProbMax)
                           THEN daily.PrecipProbMax[i + 1] ELSE 0]>> \o days)

\* The loop of GetWeather over raw.Daily.Time from day i (from 0) on: the
\* days appended, and whether an index ran past the end of TempMin or
\* WindMax, which panics.
RECURSIVE DailyLoop(_, _, _)
DailyLoop(daily, i, days) ==
  IF i >= Len(daily.Time) THEN [days |-> days, panic |-> FALSE]
  ELSE IF i >= Len(daily.WeatherCode) \/ i >= Len(daily.TempMax)
  THEN [days |-> days, panic |-> FALSE]
  ELSE IF i >= Len(daily.TempMin) \/ i >= Len(daily.WindMax)
  THEN [days |-> days, panic |-> TRUE]
  ELSE DailyLoop(daily, i + 1,
         Append(days,
                [Date |-> daily.Time[i + 1],
                 Description |-> WMODescription(daily.WeatherCode[i + 1]),
                 Icon |-> WMOIconClass(daily.WeatherCode[i + 1]),
                 TempMax |-> daily.TempMax[i + 1],
                 TempMin |-> daily.TempMin[i + 1],
                 WindMax |-> daily.WindMax[i + 1],
                 PrecipProb |-> IF i < Len(daily.PrecipProbMax)
                                THEN daily.PrecipProbMax[i + 1] ELSE 0]))

\* One entry of the trace of a call for a derivation step.
LogStep(name) == [op |-> name, url |-> ""]

\* The report GetWeather builds before the daily loop.
NewInfo(loc, units, raw) ==
  [CityName |-> loc.Name,
   Country |-> loc.Country,
   CountryCode |-> loc.CountryCode,
   TempUnit |-> TempUnitSymbol(units),
   WindUnit |-> WindUnitLabel(units),
   Current |-> [Time |-> raw.Current.Time,
                Temp |-> raw.Current.Temperature,
                Description |-> WMODescription(raw.Current.WeatherCode),
                Icon |-> WMOIconClass(raw.Current.WeatherCode)],
   Forecast |-> <<>>,
   Hourly |-> <<>>,
   Sun |-> ZeroSunBar,
   Consensus |-> ZeroConsensus(<<>>)]

\* info.Sun: buildSunBar when there is a sunrise and a sunset.
SunOf(raw) ==
  IF Len(raw.Daily.Sunrise) > 0 /\ Len(raw.Daily.Sunset) > 0
  THEN buildSunBar(raw.Current.Time, raw.Daily.Sunrise[1], raw.Daily.Sunset[1])
  ELSE ZeroSunBar

\* The trace of the derivations of a report.
DerivationLog(raw) ==
  (IF Len(raw.Daily.Sunrise) > 0 /\ Len(raw.Daily.Sunset) > 0
   THEN <<LogStep("buildSunBar")>> ELSE <<>>)
  \o <<LogStep("parseHourly")>>

\* The traces of the fetchModel calls, one model after the other.
RECURSIVE ModelLogs(_, _, _, _, _)
ModelLogs(loc, tempUnit, windUnit, answers, i) ==
  IF i > Len(forecastModels) THEN <<>>
  ELSE fetchModel(forecastModels[i], loc, tempUnit, windUnit, answers[i]).log
       \o ModelLogs(loc, tempUnit, windUnit, answers, i + 1)

\* Client.GetWeather.  up.geo, up.fc and up.models are what the HTTP GETs
\* of the geocoding call, of the forecast call and of the calls for the models
\* yield, up.ties how the halfway cases of the summary come out.  The result
\* is the report, the error, the trace (the requests for the models in the
\* configured order) and whether the call panicked instead of returning.
\* The outfit advice, a function of the report, is left out.
GetWeather(city, units, up) ==
  LET g == Geocode(city, up.geo)
      tempUnit == IF units = "imperial" THEN "fahrenheit" ELSE "celsius"
      windUnit == IF units = "imperial" THEN "mph" ELSE "kmh"
  IN  IF ~g.err.nil
      THEN [info |-> NilInfo, err |-> g.err, log |-> g.log, panic |-> FALSE]
      ELSE
        LET f == getJSON(ForecastURL(g.loc, tempUnit, windUnit), up.fc)
            log == g.log \o f.log
        IN  IF ~f.err.nil
            THEN [info |-> NilInfo, err |-> Wrap("forecast", f.err), log |-> log,
                  panic |-> FALSE]
            ELSE
              LET raw == f.val
                  daily == DailyLoop(raw.Daily, 0, <<>>)
              IN  IF daily.panic
                  THEN [info |-> NilInfo, err |-> NilErr, log |-> log, panic |-> TRUE]
                  ELSE [info |-> [NewInfo(g.loc, units, raw) EXCEPT
                                    !.Forecast = daily.days,
                                    !.Sun = SunOf(raw),
                                    !.Hourly = parseHourly(raw.Hourly, raw.Current.Time),
                                    !.Consensus = FetchConsensus(g.loc, tempUnit, windUnit,
                                                                 up.models, up.ties)],
                        err |-> NilErr,
                        log |-> log \o DerivationLog(raw)
                                    \o ModelLogs(g.loc, tempUnit, windUnit, up.models, 1),
                        panic |-> FALSE]

\* ------------------------------------------------------------ web handler

\* strings.TrimSpace on the place names of this model.
TrimSpace(s) ==
  CASE s = "ulm " -> "ulm"
    [] s = " " -> ""
    [] OTHER -> s

\* strings.ToLower on the place names of this model.
ToLower(s) ==
  CASE s = "Rio" -> "rio"
    [] s = "Ulm" -> "ulm"
    [] s = "St Ives" -> "st ives"
    [] OTHER -> s

\* cacheKey leaving the unit system out of the key.
cacheKeyOfPlace(city, units) == ToLower(city) \o "|" \o "metric"

cacheKey(city, units) == ToLower(city) \o "|" \o units

\* The error branch of the "/" handler: the status it answers with and the
\* message it shows.
HandleError(err) ==
  LET errMsg == err.msg
  IN  IF Contains(errMsg, <<"not", "found">>)
      THEN [status |-> StatusNotFound, msg |-> errMsg]
      ELSE IF Contains(errMsg, <<"too", "long">>)
      THEN [status |-> StatusBadRequest, msg |-> errMsg]
      ELSE IF \/ Contains(errMsg, <<"deadline", "exceeded">>)
              \/ Contains(errMsg, <<"timeout">>)
              \/ Contains(errMsg, <<"request", "failed">>)
      THEN [status |-> StatusBadGateway,
            msg |-> <<"Could", "not", "reach", "the", "weather", "service">>]
      ELSE [status |-> StatusBadGateway, msg |-> errMsg]

\* ------------------------------------------------------------ Report Cache

\* delete(m, k).
Delete(m, k) == [x \in (DOMAIN m) \ {k} |-> m[x]]

\* m[k] = v.
Put(m, k, v) == [x \in (DOMAIN m) \cup {k} |-> IF x = k THEN v ELSE m[x]]

\* The orders in which `for k, e := range cache` may visit the keys.
RangeOrders(m) ==
  LET n == Cardinality(DOMAIN m)
  IN  { o \in [1..n -> DOMAIN m] : \A i, j \in 1..n : o[i] = o[j] => i = j }

\* The zero time.Time, before every reading of the clock.
ZeroTime == 0

\* The eviction scan with the comparison turned round: it finds the newest.
RECURSIVE OldestScanNewest(_, _, _, _)
OldestScanNewest(m, order, oldest, oldestTime) ==
  IF order = <<>>
  THEN oldest
  ELSE LET k == Head(order)
           e == m[k]
       IN  IF oldest = "" \/ e.createdAt > oldestTime
           THEN OldestScanNewest(m, Tail(order), k, e.createdAt)
           ELSE OldestScanNewest(m, Tail(order), oldest, oldestTime)

\* The eviction scan of cacheSet over the rest of the visiting order.
RECURSIVE OldestScan(_, _, _, _)
OldestScan(m, order, oldest, oldestTime) ==
  IF order = <<>>
  THEN oldest
  ELSE LET k == Head(order)
           e == m[k]
       IN  IF oldest = "" \/ e.createdAt < oldestTime
           THEN OldestScan(m, Tail(order), k, e.createdAt)
           ELSE OldestScan(m, Tail(order), oldest, oldestTime)

\* cacheGet without the expiry test.
cacheGetNoExpiry(m, key, now) ==
  IF key \in DOMAIN m THEN m[key].info ELSE NilInfo

\* cacheGet with the expiry test turned round.
cacheGetAfter(m, key, now) ==
  IF key \in DOMAIN m /\ now > m[key].expires THEN m[key].info ELSE NilInfo

\* cacheGet between RLock and RUnlock: the report, or nil.
cacheGet(m, key, now) ==
  IF key \in DOMAIN m /\ now < m[key].expires THEN m[key].info ELSE NilInfo

\* cacheSet evicting only above the capacity (> for >=).
cacheSetAbove(m, key, info, order, now1, now2) ==
  LET kept == IF key \notin DOMAIN m /\ Cardinality(DOMAIN m) > cacheMaxSize
              THEN Delete(m, OldestScan(m, order, "", ZeroTime))
              ELSE m
  IN  Put(kept, key,
          [info |-> info, expires |-> now1 + cacheTTL, createdAt |-> now2])

\* cacheSet evicting at capacity whether or not the key is present.
cacheSetAlways(m, key, info, order, now1, now2) ==
  LET kept == IF Cardinality(DOMAIN m) >= cacheMaxSize
              THEN Delete(m, OldestScan(m, order, "", ZeroTime))
              ELSE m
  IN  Put(kept, key,
          [info |-> info, expires |-> now1 + cacheTTL, createdAt |-> now2])

\* cacheSet between Lock and Unlock: the map it leaves.  now1 and now2 are the
\* two readings of time.Now(), order the visiting order of the eviction scan.
cacheSet(m, key, info, order, now1, now2) ==
  LET kept == IF key \notin DOMAIN m /\ Cardinality(DOMAIN m) >= cacheMaxSize
              THEN Delete(m, OldestScan(m, order, "", ZeroTime))
              ELSE m
  IN  Put(kept, key,
          [info |-> info, expires |-> now1 + cacheTTL, createdAt |-> now2])

\* One pass of the cleanup goroutine between Lock and Unlock.
sweepPass(m, now) ==
  [k \in { x \in DOMAIN m : ~(now > m[x].expires) } |-> m[k]]

\* ------------------------------------------------------------------- state

Handlers == { "h1", "h2" }

Sweeper == "sweeper"

NoOne == "none"

\* A place name one character over the handler's ceiling.
LongCity == "aaaaaaaaaaaaaaaaaaaaaaaaaaaaaaaaaaaaaaaaaaaaaaaaaaaaaaaaaaaaaaaaaaaaaaaaaaaaaaaaaaaaaaaaaaaaaaaaaaaaa"

\* What a request may carry.
Methods == { "GET", "HEAD", "POST" }

RawCities == { "", " ", "Rio", "ulm ", LongCity }

RawUnits == { "imperial", "metric", "" }

Units == { "metric", "imperial" }

\* The place names GetWeather is called with.
Places == { "Rio", "ulm", "St Ives" }

\* The place names of the calls followed one by one.
CallPlaces == { "Rio", "St Ives" }

\* Four models that answer at once, with the same reading.
ModelsAgree ==
  [i \in 1..Len(forecastModels) |->
     <<OkJSON(modelCurrentRaw(Ptr(1000), Ptr(50), Ptr(500), Ptr(101300), Ptr(3))),
       OkJSON(modelCurrentRaw(Ptr(1000), Ptr(50), Ptr(500), Ptr(101300), Ptr(3)))>>]

\* What the HTTP GETs of one GetWeather call may yield: every answer of the
\* geocoding and of the forecast service, the models agreeing.
Scenarios ==
  { [geo |-> <<g1, g2>>, fc |-> <<f1, f2>>, models |-> ModelsAgree, ties |-> TiesAway] :
      g1 \in GeoResp, g2 \in GeoResp, f1 \in ForecastResp, f2 \in ForecastResp }

VARIABLES
  cache,     \* the map: key -> [info, expires, createdAt]
  cacheMu,   \* the RWMutex: its writer (or NoOne) and its readers
  clock,     \* time.Now()
  pc,        \* each handler's position in the "/" handler
  req,       \* each handler's locals
  sweep,     \* the cleanup goroutine: its position and its reading of the clock
  stored,    \* history: per key, the expiry of the report last stored
  call       \* one GetWeather call followed through the handler's error branch

vars == <<cache, cacheMu, clock, pc, req, sweep, stored, call>>

\* Every key a request can produce.
Keys ==
  { cacheKey(TrimSpace(c), u) :
      c \in { x \in RawCities : TrimSpace(x) # "" /\ Len(TrimSpace(x)) <= MaxCityLen },
      u \in Units }

EmptyCache == [k \in {} |-> NilInfo]

\* A handler's locals outside a request.  Once the handler has answered
\* (pc = "done") they hold the response: its status, the report rendered and
\* where it came from (via).
IdleReq ==
  [city |-> "", units |-> "", key |-> "", info |-> NilInfo, status |-> 0, via |-> ""]

NoCall == [phase |-> "off"]

\* What decided a GetWeather call, read off the upstream answers themselves:
\* the answer a getJSON call ended on, and what was wrong with it.
LastAnswer(resps) == IF resps[1].kind = "net" THEN resps[2] ELSE resps[1]

FailureOf(r) ==
  IF r.kind = "net" THEN "network"
  ELSE IF r.status # StatusOK THEN "upstream"
  ELSE IF ~r.json THEN "decode"
  ELSE "none"

Cause(up) ==
  LET g == LastAnswer(up.geo)
      f == LastAnswer(up.fc)
  IN  IF FailureOf(g) # "none" THEN FailureOf(g)
      ELSE IF Len(g.val) = 0 THEN "notfound"
      ELSE IF FailureOf(f) # "none" THEN FailureOf(f)
      ELSE "ok"

\* The "/" handler from the GetWeather call to the status it answers with.
Fetch(city, units, up) ==
  LET r == GetWeather(city, units, up)
  IN  [info |-> r.info,
       log |-> r.log,
       status |-> IF r.err.nil THEN StatusOK ELSE HandleError(r.err).status,
       failed |-> ~r.err.nil]

\* What a GetWeather call of the handler can come to, per place and units.
Outcomes ==
  [c \in Places, u \in Units |-> { Fetch(c, u, up) : up \in Scenarios }]

\* History: stored[k] is the expiry of the report last stored under k while
\* that expiry lies ahead, and ZeroTime otherwise.
Forget(st, now) == [k \in DOMAIN st |-> IF st[k] > now THEN st[k] ELSE ZeroTime]

Init ==
  /\ cache = EmptyCache
  /\ cacheMu = [w |-> NoOne, r |-> {}]
  /\ clock = 1
  /\ pc = [h \in Handlers |-> "idle"]
  /\ req = [h \in Handlers |-> IdleReq]
  /\ sweep = [pc |-> "wait", now |-> ZeroTime]
  /\ stored = [k \in Keys |-> ZeroTime]
  /\ call = NoCall

\* ------------------------------------------------------------ the RWMutex

\* cacheMu.RLock() returns once no writer holds the mutex.
CanRLock(mu) == mu.w = NoOne

\* A writer taking the mutex the way a reader does.
CanLockShared(mu) == mu.w = NoOne

\* cacheMu.Lock() returns once no writer and no reader holds the mutex.
CanLock(mu) == mu.w = NoOne /\ mu.r = {}

\* ------------------------------------------------------- the "/" handler

\* The handler without the check of the length of the place name.
HandleRequestAnyLength(h) ==
  /\ pc[h] = "idle"
  /\ \E method \in Methods, rawCity \in RawCities, rawUnits \in RawUnits :
       LET city == TrimSpace(rawCity)
           units == IF rawUnits # "imperial" THEN "metric" ELSE rawUnits
       IN  IF method # "GET" /\ method # "HEAD"
           THEN /\ req' = [req EXCEPT ![h] = [IdleReq EXCEPT
                                                !.status = StatusMethodNotAllowed]]
                /\ pc' = [pc EXCEPT ![h] = "done"]
                /\ cacheMu' = cacheMu
           ELSE IF city = ""
           THEN /\ req' = [req EXCEPT ![h] = [IdleReq EXCEPT !.status = StatusOK]]
                /\ pc' = [pc EXCEPT ![h] = "done"]
                /\ cacheMu' = cacheMu
           ELSE /\ CanRLock(cacheMu)
                /\ req' = [req EXCEPT ![h] = [IdleReq EXCEPT
                                                !.city = city, !.units = units,
                                                !.key = cacheKey(city, units)]]
                /\ pc' = [pc EXCEPT ![h] = "read"]
                /\ cacheMu' = [cacheMu EXCEPT !.r = @ \cup {h}]
  /\ UNCHANGED <<cache, clock, sweep, stored, call>>

\* The handler up to cacheGet's cacheMu.RLock(): method check, form values,
\* validation, cacheKey.  A request that is answered at once needs no lock.
\* A request rejected for its place name keeps the name: the page shows it.
HandleRequest(h) ==
  /\ pc[h] = "idle"
  /\ \E method \in Methods, rawCity \in RawCities, rawUnits \in RawUnits :
       LET city == TrimSpace(rawCity)
           units == IF rawUnits # "imperial" THEN "metric" ELSE rawUnits
       IN  IF method # "GET" /\ method # "HEAD"
           THEN /\ req' = [req EXCEPT ![h] = [IdleReq EXCEPT
                                                !.status = StatusMethodNotAllowed]]
                /\ pc' = [pc EXCEPT ![h] = "done"]
                /\ cacheMu' = cacheMu
           ELSE IF city = ""
           THEN /\ req' = [req EXCEPT ![h] = [IdleReq EXCEPT !.status = StatusOK]]
                /\ pc' = [pc EXCEPT ![h] = "done"]
                /\ cacheMu' = cacheMu
           ELSE IF Len(city) > MaxCityLen
           THEN /\ req' = [req EXCEPT ![h] = [IdleReq EXCEPT !.status = StatusBadRequest,
                                                          !.city = city]]
                /\ pc' = [pc EXCEPT ![h] = "done"]
                /\ cacheMu' = cacheMu
           ELSE /\ CanRLock(cacheMu)
                /\ req' = [req EXCEPT ![h] = [IdleReq EXCEPT
                                                !.city = city, !.units = units,
                                                !.key = cacheKey(city, units)]]
                /\ pc' = [pc EXCEPT ![h] = "read"]
                /\ cacheMu' = [cacheMu EXCEPT !.r = @ \cup {h}]
  /\ UNCHANGED <<cache, clock, sweep, stored, call>>

\* cacheGet: the lookup and the deferred RUnlock; a hit goes on to render.
CacheGetRead(h) ==
  /\ pc[h] = "read"
  /\ LET info == cacheGet(cache, req[h].key, clock)
     IN  IF info = NilInfo
         THEN /\ pc' = [pc EXCEPT ![h] = "fetch"]
              /\ req' = req
         ELSE /\ pc' = [pc EXCEPT ![h] = "done"]
              /\ req' = [req EXCEPT ![h] = [IdleReq EXCEPT
                                    !.info = info, !.status = StatusOK, !.via = "cache"]]
  /\ cacheMu' = [cacheMu EXCEPT !.r = @ \ {h}]
  /\ UNCHANGED <<cache, clock, sweep, stored, call>>

\* The handler going on to cacheSet whether or not GetWeather failed.
CallGetWeatherStoresAll(h, temps) ==
  /\ pc[h] = "fetch"
  /\ \E o \in Outcomes[req[h].city, req[h].units] :
       /\ ~o.failed => o.info.Current.Temp \in temps
       /\ CanLock(cacheMu)
       /\ req' = [req EXCEPT ![h].via = "GetWeather", ![h].info = o.info]
       /\ pc' = [pc EXCEPT ![h] = "set"]
       /\ cacheMu' = [cacheMu EXCEPT !.w = h]
  /\ UNCHANGED <<cache, clock, sweep, stored, call>>

\* client.GetWeather, then the handler's error branch or, with a report,
\* cacheSet's cacheMu.Lock().  temps are the temperatures the forecast
\* service may report.
CallGetWeather(h, temps) ==
  /\ pc[h] = "fetch"
  /\ \E o \in Outcomes[req[h].city, req[h].units] :
       IF o.failed
       THEN /\ req' = [req EXCEPT ![h] = [IdleReq EXCEPT
                                  !.via = "GetWeather", !.status = o.status]]
            /\ pc' = [pc EXCEPT ![h] = "done"]
            /\ cacheMu' = cacheMu
       ELSE /\ o.info.Current.Temp \in temps
            /\ CanLock(cacheMu)
            /\ req' = [req EXCEPT ![h].via = "GetWeather", ![h].info = o.info]
            /\ pc' = [pc EXCEPT ![h] = "set"]
            /\ cacheMu' = [cacheMu EXCEPT !.w = h]
  /\ UNCHANGED <<cache, clock, sweep, stored, call>>

\* cacheSet: eviction, insertion and the deferred Unlock; then the render.
\* drifts is by how much the clock may advance between the two time.Now().
CacheSetBody(h, drifts) ==
  /\ pc[h] = "set"
  /\ \E order \in RangeOrders(cache), d \in drifts :
       /\ clock + d <= MaxClock
       /\ cache' = cacheSet(cache, req[h].key, req[h].info, order, clock, clock + d)
       /\ stored' = Forget([stored EXCEPT ![req[h].key] = clock + cacheTTL], clock + d)
       /\ clock' = clock + d
  /\ cacheMu' = [cacheMu EXCEPT !.w = NoOne]
  /\ req' = [req EXCEPT ![h] = [IdleReq EXCEPT
                       !.info = req[h].info, !.status = StatusOK, !.via = "GetWeather"]]
  /\ pc' = [pc EXCEPT ![h] = "done"]
  /\ UNCHANGED <<sweep, call>>

\* The handler returns; the goroutine is free for the next request.
Return(h) ==
  /\ pc[h] = "done"
  /\ pc' = [pc EXCEPT ![h] = "idle"]
  /\ req' = [req EXCEPT ![h] = IdleReq]
  /\ UNCHANGED <<cache, cacheMu, clock, sweep, stored, call>>

\* ------------------------------------------------- the cleanup goroutine

\* The ticker fires: now := time.Now().
SweepTick ==
  /\ sweep.pc = "wait"
  /\ sweep' = [pc |-> "lock", now |-> clock]
  /\ UNCHANGED <<cache, cacheMu, clock, pc, req, stored, call>>

\* cacheMu.Lock().
SweepLock ==
  /\ sweep.pc = "lock"
  /\ CanLock(cacheMu)
  /\ cacheMu' = [cacheMu EXCEPT !.w = Sweeper]
  /\ sweep' = [sweep EXCEPT !.pc = "run"]
  /\ UNCHANGED <<cache, clock, pc, req, stored, call>>

\* The pass over the map and cacheMu.Unlock().
SweepRun ==
  /\ sweep.pc = "run"
  /\ cache' = sweepPass(cache, sweep.now)
  /\ cacheMu' = [cacheMu EXCEPT !.w = NoOne]
  /\ sweep' = [pc |-> "wait", now |-> ZeroTime]
  /\ UNCHANGED <<clock, pc, req, stored, call>>

\* Time passes.
Tick ==
  /\ clock < MaxClock
  /\ clock' = clock + 1
  /\ stored' = Forget(stored, clock + 1)
  /\ UNCHANGED <<cache, cacheMu, pc, req, sweep, call>>

\* Requests served one at a time, concurrently with the cleanup goroutine.
Next ==
  \/ HandleRequest("h1")
  \/ CacheGetRead("h1")
  \/ CallGetWeather("h1", Temps)
  \/ CacheSetBody("h1", {0})
  \/ Return("h1")
  \/ SweepTick
  \/ SweepLock
  \/ SweepRun
  \/ Tick

Spec == Init /\ [][Next]_vars

\* Requests served one at a time, the clock advancing or not between the two
\* time.Now() of cacheSet.
NextDrift ==
  \/ HandleRequest("h1")
  \/ CacheGetRead("h1")
  \/ CallGetWeather("h1", {10})
  \/ CacheSetBody("h1", {0, 1})
  \/ Return("h1")
  \/ SweepTick
  \/ SweepLock
  \/ SweepRun
  \/ Tick

SpecDrift == Init /\ [][NextDrift]_vars

\* Requests served concurrently, every interleaving of the handlers' steps
\* and the cleanup goroutine's.
NextConc ==
  \/ \E h \in Handlers : HandleRequest(h)
  \/ \E h \in Handlers : CacheGetRead(h)
  \/ \E h \in Handlers : CallGetWeather(h, {10})
  \/ \E h \in Handlers : CacheSetBody(h, {0})
  \/ \E h \in Handlers : Return(h)
  \/ SweepTick
  \/ SweepLock
  \/ SweepRun
  \/ Tick

SpecConc == Init /\ [][NextConc]_vars

\* ------------------------------------------- one call through the pipeline

\* A GetWeather call of the handler on a cache miss, with what its HTTP GETs
\* yield.
InitCall ==
  /\ cache = EmptyCache
  /\ cacheMu = [w |-> NoOne, r |-> {}]
  /\ clock = 1
  /\ pc = [h \in Handlers |-> "idle"]
  /\ req = [h \in Handlers |-> IdleReq]
  /\ sweep = [pc |-> "wait", now |-> ZeroTime]
  /\ stored = [k \in Keys |-> ZeroTime]
  /\ \E c \in CallPlaces, u \in Units, up \in Scenarios :
       call = [phase |-> "start", city |-> c, units |-> u, up |-> up]

\* The getJSON call of Geocode returns.
ApplyGetJSON ==
  /\ call.phase = "start"
  /\ call' = [phase |-> "fetched", city |-> call.city, units |-> call.units,
              up |-> call.up, get |-> getJSON(GeocodeURL(call.city), call.up.geo)]
  /\ UNCHANGED <<cache, cacheMu, clock, pc, req, sweep, stored>>

\* Client.Geocode returns.
ApplyGeocode ==
  /\ call.phase = "fetched"
  /\ call' = [phase |-> "geocoded", city |-> call.city, units |-> call.units,
              up |-> call.up, get |-> call.get,
              geo |-> Geocode(call.city, call.up.geo)]
  /\ UNCHANGED <<cache, cacheMu, clock, pc, req, sweep, stored>>

\* Client.GetWeather returns and the handler picks the status it answers with.
ApplyGetWeather ==
  /\ call.phase = "geocoded"
  /\ LET r == GetWeather(call.city, call.units, call.up)
     IN  call' = [phase |-> "done", city |-> call.city, units |-> call.units,
                  up |-> call.up, get |-> call.get, geo |-> call.geo, res |-> r,
                  status |-> IF r.err.nil THEN StatusOK
                             ELSE HandleError(r.err).status]
  /\ UNCHANGED <<cache, cacheMu, clock, pc, req, sweep, stored>>

NextCall == ApplyGetJSON \/ ApplyGeocode \/ ApplyGetWeather

SpecCall == InitCall /\ [][NextCall]_vars

\* --------------------------------------------- one reverse geocoding call

\* The server at rest: nothing in the cache, no request in progress.
ServerAtRest ==
  /\ cache = EmptyCache
  /\ cacheMu = [w |-> NoOne, r |-> {}]
  /\ clock = 1
  /\ pc = [h \in Handlers |-> "idle"]
  /\ req = [h \in Handlers |-> IdleReq]
  /\ sweep = [pc |-> "wait", now |-> ZeroTime]
  /\ stored = [k \in Keys |-> ZeroTime]

\* A ReverseGeocode call with what its HTTP request yields.
InitReverse ==
  /\ ServerAtRest
  /\ \E loc \in { LocUlm, LocRio }, resp \in ReverseResp :
       call = [phase |-> "reverse", lat |-> loc.Latitude, lon |-> loc.Longitude,
               resp |-> resp]

\* Client.ReverseGeocode returns.
ApplyReverseGeocode ==
  /\ call.phase = "reverse"
  /\ call' = [phase |-> "reversed", lat |-> call.lat, lon |-> call.lon,
              resp |-> call.resp,
              res |-> ReverseGeocode(call.lat, call.lon, call.resp)]
  /\ UNCHANGED <<cache, cacheMu, clock, pc, req, sweep, stored>>

NextReverse == ApplyReverseGeocode

SpecReverse == InitReverse /\ [][NextReverse]_vars

\* ------------------------------------------------ one FetchConsensus call

\* The indices of the configured models.
ModelIdx == 1..Len(forecastModels)

\* A FetchConsensus call with what the models' endpoints yield.
InitStats ==
  /\ ServerAtRest
  /\ \E answers \in [ModelIdx -> ModelAnswers] :
       call = [phase |-> "consensus", loc |-> LocUlm,
               tempUnit |-> "celsius", windUnit |-> "kmh", models |-> answers]

\* Client.FetchConsensus returns.
ApplyFetchConsensus ==
  /\ call.phase = "consensus"
  /\ \E ties \in Ties :
       call' = [phase |-> "summarised", loc |-> call.loc,
                tempUnit |-> call.tempUnit, windUnit |-> call.windUnit,
                models |-> call.models,
                cons |-> FetchConsensus(call.loc, call.tempUnit, call.windUnit,
                                        call.models, ties)]
  /\ UNCHANGED <<cache, cacheMu, clock, pc, req, sweep, stored>>

NextStats == ApplyFetchConsensus

SpecStats == InitStats /\ [][NextStats]_vars

\* --------------------------- FetchConsensus, goroutine by goroutine

\* The locals of FetchConsensus on entry: the readings slice as make() fills
\* it, the WaitGroup counter at zero, no goroutine started.
ConsensusEntry ==
  [next |-> 1, wg |-> 0,
   go |-> [i \in ModelIdx |-> "new"],
   readings |-> [i \in ModelIdx |-> ZeroReading],
   order |-> <<>>]

InitCons ==
  /\ ServerAtRest
  /\ \E answers \in [ModelIdx -> FewModelAnswers], u \in UnitParams :
       call = [phase |-> "spawn", loc |-> LocUlm,
               tempUnit |-> u.tempUnit, windUnit |-> u.windUnit,
               models |-> answers, fc |-> ConsensusEntry, log |-> <<>>,
               cons |-> ZeroConsensus(<<>>)]

\* wg.Wait() returning before the counter is back at zero.
WaitPassesEarly(wg) == TRUE

\* wg.Wait() returns once the counter is zero.
WaitPasses(wg) == wg = 0

\* One iteration of the loop over forecastModels: wg.Add(1) and the go
\* statement.  After the last one FetchConsensus is at wg.Wait().
GoFetchModel ==
  /\ call.phase = "spawn"
  /\ LET i == call.fc.next
     IN  call' = [call EXCEPT
                    !.fc.wg = @ + 1,
                    !.fc.go[i] = "running",
                    !.fc.next = i + 1,
                    !.phase = IF i = Len(forecastModels) THEN "wait" ELSE "spawn"]
  /\ UNCHANGED <<cache, cacheMu, clock, pc, req, sweep, stored>>

\* Goroutine idx: fetchModel returns and readings[idx] is assigned.
FetchModelReturn(idx) ==
  /\ call.phase \in { "spawn", "wait", "returned" }
  /\ call.fc.go[idx] = "running"
  /\ LET m == fetchModel(forecastModels[idx], call.loc, call.tempUnit,
                         call.windUnit, call.models[idx])
     IN  call' = [call EXCEPT
                    !.fc.readings[idx] = m.reading,
                    !.fc.go[idx] = "written",
                    !.fc.order = Append(@, idx),
                    !.log = @ \o m.log]
  /\ UNCHANGED <<cache, cacheMu, clock, pc, req, sweep, stored>>

\* Goroutine idx: the deferred wg.Done().
WgDone(idx) ==
  /\ call.phase \in { "spawn", "wait", "returned" }
  /\ call.fc.go[idx] = "written"
  /\ call' = [call EXCEPT !.fc.go[idx] = "done", !.fc.wg = @ - 1]
  /\ UNCHANGED <<cache, cacheMu, clock, pc, req, sweep, stored>>

\* wg.Wait() returns; the statistics are computed and FetchConsensus returns.
WgWait ==
  /\ call.phase = "wait"
  /\ WaitPasses(call.fc.wg)
  /\ \E ties \in Ties :
       call' = [call EXCEPT !.phase = "returned",
                            !.cons = ConsensusStats(call.fc.readings, ties)]
  /\ UNCHANGED <<cache, cacheMu, clock, pc, req, sweep, stored>>

NextCons ==
  \/ GoFetchModel
  \/ \E idx \in ModelIdx : FetchModelReturn(idx)
  \/ \E idx \in ModelIdx : WgDone(idx)
  \/ WgWait

SpecCons == InitCons /\ [][NextCons]_vars

\* ------------------------------------------------------ one buildSunBar call

\* The timestamps buildSunBar is called with: the text, and for a text in
\* the layout the instant it names.
SunTimes ==
  { [text |-> Stamp(x[1], x[2], x[3]), ok |-> TRUE, t |-> InstantOf(x[1], x[2], x[3])] :
      x \in { <<1, 0, 0>>, <<1, 6, 0>>, <<1, 6, 30>>, <<1, 9, 0>>, <<1, 12, 0>>,
              <<1, 18, 0>>, <<1, 21, 0>>, <<2, 6, 0>> } }
  \cup { [text |-> "", ok |-> FALSE, t |-> 0],
         [text |-> "2024-06-01 06:00", ok |-> FALSE, t |-> 0] }

InitSun ==
  /\ ServerAtRest
  /\ \E now \in SunTimes, sunrise \in SunTimes, sunset \in SunTimes :
       call = [phase |-> "sun", now |-> now, sunrise |-> sunrise, sunset |-> sunset]

\* buildSunBar returns.
ApplyBuildSunBar ==
  /\ call.phase = "sun"
  /\ call' = [phase |-> "sunned", now |-> call.now, sunrise |-> call.sunrise,
              sunset |-> call.sunset,
              sun |-> buildSunBar(call.now.text, call.sunrise.text, call.sunset.text)]
  /\ UNCHANGED <<cache, cacheMu, clock, pc, req, sweep, stored>>

NextSun == ApplyBuildSunBar

SpecSun == InitSun /\ [][NextSun]_vars

\* ------------------------------------ parseHourly as a function

\* The hours of the two days of the model, in order.
HourStamps == [k \in 1..48 |-> Stamp(1 + (k - 1) \div 24, (k - 1) % 24, 0)]

\* The time arrays of the hourly blocks: runs of consecutive hours, as the
\* forecast service lists them; a run with an hour listed twice; a run with
\* an entry that is not in the layout.
HourlyTimes ==
  LET runs == { SubSeq(HourStamps, a, a + n - 1) : a \in { 1, 10 }, n \in { 0, 3, 24, 26, 30 } }
  IN  runs
      \cup { [r EXCEPT ![2] = r[1]] : r \in { x \in runs : Len(x) >= 2 } }
      \cup { [r EXCEPT ![2] = "2024-06-01 01:00"] : r \in { x \in runs : Len(x) >= 2 } }

\* The hourly blocks: every field array as long as the time array, or the
\* field arrays two entries long.  The values tell the positions apart.
HourlyBlocks ==
  { hourlyRaw(time,
              [i \in 1..n |-> 1000 + 10 * i], [i \in 1..n |-> i],
              [i \in 1..n |-> IF i % 2 = 0 THEN 3 ELSE 61],
              [i \in 1..n |-> 500 + 10 * i]) :
      time \in HourlyTimes, n \in { 2, 30 } }

\* The current times parseHourly is called with.
HourlyNows ==
  { [text |-> Stamp(x[1], x[2], x[3]), ok |-> TRUE, t |-> InstantOf(x[1], x[2], x[3])] :
      x \in { <<1, 0, 0>>, <<1, 9, 0>>, <<1, 9, 30>>, <<1, 12, 0>>, <<2, 3, 0>>,
              <<2, 23, 0>> } }
  \cup { [text |-> "", ok |-> FALSE, t |-> 0],
         [text |-> "2024-06-01 12:00", ok |-> FALSE, t |-> 0] }

InitHourly ==
  /\ ServerAtRest
  /\ \E h \in HourlyBlocks, now \in HourlyNows :
       call = [phase |-> "hourly", h |-> h, now |-> now]

\* parseHourly returns.
ApplyParseHourly ==
  /\ call.phase = "hourly"
  /\ call' = [phase |-> "houred", h |-> call.h, now |-> call.now,
              points |-> parseHourly(call.h, call.now.text)]
  /\ UNCHANGED <<cache, cacheMu, clock, pc, req, sweep, stored>>

NextHourly == ApplyParseHourly

SpecHourly == InitHourly /\ [][NextHourly]_vars

\* ------------------------------------ the daily loop of GetWeather

\* forecast_days of the forecast request: the days the forecast service
\* answers with at most.
ForecastDays == 5

\* The dates of the daily block, in the order of the forecast service.
DayDates ==
  <<"2024-06-01", "2024-06-02", "2024-06-03", "2024-06-04", "2024-06-05">>

\* The first n of the values from + step, from + 2 * step, ...
Run(n, from, step) == [i \in 1..n |-> from + step * i]

\* The daily blocks: a time array of up to ForecastDays dates and every
\* combination of lengths, up to its length, of the five field arrays.
\* The values tell the positions apart.
DailyBlocks ==
  { dailyRaw(SubSeq(DayDates, 1, t), Run(c, 0, 1), Run(hi, 2000, 10), Run(lo, 1000, 10),
             Run(w, 500, 10), Run(p, 0, 10), <<>>, <<>>) :
      <<t, c, hi, lo, w, p>> \in
        { x \in (0..ForecastDays) \X (0..ForecastDays) \X (0..ForecastDays)
                  \X (0..ForecastDays) \X (0..ForecastDays) \X (0..ForecastDays) :
            \A k \in 2..6 : x[k] <= x[1] } }

InitDaily ==
  /\ ServerAtRest
  /\ \E daily \in DailyBlocks :
       call = [phase |-> "daily", daily |-> daily]

\* The loop over raw.Daily.Time has run, to its end or to a panic.
ApplyDailyLoop ==
  /\ call.phase = "daily"
  /\ LET r == DailyLoop(call.daily, 0, <<>>)
     IN  call' = [phase |-> "dailied", daily |-> call.daily,
                  Forecast |-> r.days, panic |-> r.panic]
  /\ UNCHANGED <<cache, cacheMu, clock, pc, req, sweep, stored>>

NextDaily == ApplyDailyLoop

SpecDaily == InitDaily /\ [][NextDaily]_vars

\* ------------------------------------ the resolvers of the two clients

\* The public DNS servers of NewClient's resolver, in the order it tries them.
PublicDNS == <<"8.8.8.8:53", "1.1.1.1:53", "8.8.4.4:53">>

\* The address of the system's DNS server, which the Go resolver passes to
\* Dial.
SystemDNS == "127.0.0.53:53"

DNSServers == { PublicDNS[i] : i \in DOMAIN PublicDNS } \cup { SystemDNS }

\* The clients: the one NewClient builds, with the resolver that has the
\* Dial function, and consensusClient, a Client around a plain http.Client,
\* whose names the default resolver looks up at the system's server.
Clients == { "client", "consensusClient" }

\* One name resolution: which servers can be dialled, and the network the
\* resolver asks for.
InitDial ==
  /\ ServerAtRest
  /\ \E c \in Clients, up \in [DNSServers -> BOOLEAN], network \in { "udp", "tcp" } :
       call = [phase |-> "dial", client |-> c, up |-> up, network |-> network,
               i |-> 1, dialled |-> <<>>, conn |-> ""]

\* One turn of the loop of Dial: d.DialContext(ctx, "udp", dns); the first
\* connection made is returned.
DialPublic ==
  /\ call.phase = "dial"
  /\ call.client = "client"
  /\ call.i <= Len(PublicDNS)
  /\ LET dns == PublicDNS[call.i]
     IN  call' = [call EXCEPT
                    !.dialled = Append(@, [server |-> dns, network |-> "udp",
                                           ok |-> call.up[dns]]),
                    !.i = @ + 1,
                    !.conn = IF call.up[dns] THEN dns ELSE "",
                    !.phase = IF call.up[dns] THEN "done" ELSE "dial"]
  /\ UNCHANGED <<cache, cacheMu, clock, pc, req, sweep, stored>>

\* d.DialContext(ctx, network, address): the last resort of Dial, and all
\* the default resolver of consensusClient does.
DialSystem ==
  /\ call.phase = "dial"
  /\ call.client = "client" => call.i > Len(PublicDNS)
  /\ call' = [call EXCEPT
                !.dialled = Append(@, [server |-> SystemDNS, network |-> call.network,
                                       ok |-> call.up[SystemDNS]]),
                !.conn = IF call.up[SystemDNS] THEN SystemDNS ELSE "",
                !.phase = "done"]
  /\ UNCHANGED <<cache, cacheMu, clock, pc, req, sweep, stored>>

NextDial ==
  \/ DialPublic
  \/ DialSystem

SpecDial == InitDial /\ [][NextDial]_vars

\* ------------------------------------ GetWeather, step by step

\* What the geocoding service may answer in the calls followed step by step.
FewGeoAnswers ==
  { <<NetFail(<<"connection", "refused">>), NetFail(<<"context", "deadline", "exceeded">>)>>,
    <<NetFail(<<"connection", "refused">>), OkJSON(<<LocUlm, LocRio>>)>>,
    <<HttpErr(500, <<"internal", "server", "error">>),
      HttpErr(500, <<"internal", "server", "error">>)>>,
    <<OkJSON(<<>>), OkJSON(<<>>)>>,
    <<OkJSON(<<LocRio>>), OkJSON(<<LocRio>>)>> }

\* Forecast answers that decode: the aligned one; one whose wind_speed_10m_max
\* array is missing; one whose weather_code array is a day short; one without
\* sunrise and sunset; one whose current time is not in the layout.
FewForecastRaws ==
  { forecastRaw(Stamp(1, 12, 0), 10, 3, AlignedDaily, AlignedHourly),
    forecastRaw(Stamp(1, 12, 0), 10, 3, [AlignedDaily EXCEPT !.WindMax = <<>>],
                AlignedHourly),
    forecastRaw(Stamp(1, 12, 0), 10, 3, [AlignedDaily EXCEPT !.WeatherCode = <<3>>],
                AlignedHourly),
    forecastRaw(Stamp(1, 12, 0), 10, 3,
                [AlignedDaily EXCEPT !.Sunrise = <<>>, !.Sunset = <<>>], AlignedHourly),
    forecastRaw("", 10, 3, AlignedDaily, AlignedHourly) }

\* What the forecast service may answer in the calls followed step by step.
FewForecastAnswers ==
  { <<NetFail(<<"connection", "refused">>), NetFail(<<"context", "deadline", "exceeded">>)>>,
    <<NetFail(<<"connection", "refused">>),
      OkJSON(forecastRaw(Stamp(1, 12, 0), 10, 3, AlignedDaily, AlignedHourly))>>,
    <<HttpErr(404, <<"resource", "not", "found">>),
      HttpErr(404, <<"resource", "not", "found">>)>>,
    <<BadJSON(<<"unexpected", "end", "of", "JSON", "input">>),
      BadJSON(<<"unexpected", "end", "of", "JSON", "input">>)>> }
  \cup { <<OkJSON(r), OkJSON(r)>> : r \in FewForecastRaws }

\* Every combination of per-model outcomes: each model either fails or
\* answers, the models answering with one of two readings in turn.
ModelOutcomes ==
  { answers \in [ModelIdx -> FewModelAnswers] :
      \A i \in ModelIdx :
        \/ answers[i][1].kind = "net"
        \/ answers[i][1].val.Current.Temp.v = (IF i % 2 = 1 THEN 1000 ELSE 1200) }

\* A GetWeather call with what its HTTP GETs yield.
InitWeather ==
  /\ ServerAtRest
  /\ \E units \in Units, geo \in FewGeoAnswers, fc \in FewForecastAnswers,
        answers \in ModelOutcomes :
       call = [phase |-> "geocode", city |-> "Rio", units |-> units,
               up |-> [geo |-> geo, fc |-> fc], models |-> answers,
               loc |-> NoLoc, tempUnit |-> "", windUnit |-> "",
               raw |-> forecastRaw("", 0, 0, dailyRaw(<<>>, <<>>, <<>>, <<>>, <<>>, <<>>, <<>>, <<>>),
                                   hourlyRaw(<<>>, <<>>, <<>>, <<>>, <<>>)),
               info |-> NilInfo, err |-> NilErr,
               fc |-> ConsensusEntry, log |-> <<>>, cons |-> ZeroConsensus(<<>>)]

\* Geocode going on to the forecast request after a failure.
WGeocodeKeepsGoing ==
  /\ call.phase = "geocode"
  /\ LET g == Geocode(call.city, call.up.geo)
     IN  call' = [call EXCEPT
                    !.phase = "forecast",
                    !.loc = IF g.err.nil THEN g.loc ELSE LocRio,
                    !.tempUnit = IF call.units = "imperial" THEN "fahrenheit" ELSE "celsius",
                    !.windUnit = IF call.units = "imperial" THEN "mph" ELSE "kmh",
                    !.log = @ \o g.log]
  /\ UNCHANGED <<cache, cacheMu, clock, pc, req, sweep, stored>>

\* c.Geocode(city) returns: with an error GetWeather returns it; otherwise
\* the unit parameters are set.
WGeocode ==
  /\ call.phase = "geocode"
  /\ LET g == Geocode(call.city, call.up.geo)
     IN  IF ~g.err.nil
         THEN call' = [call EXCEPT !.phase = "failed", !.err = g.err,
                                   !.log = @ \o g.log]
         ELSE call' = [call EXCEPT
                         !.phase = "forecast",
                         !.loc = g.loc,
                         !.tempUnit = IF call.units = "imperial" THEN "fahrenheit"
                                      ELSE "celsius",
                         !.windUnit = IF call.units = "imperial" THEN "mph" ELSE "kmh",
                         !.log = @ \o g.log]
  /\ UNCHANGED <<cache, cacheMu, clock, pc, req, sweep, stored>>

\* c.getJSON(u, &raw) returns: with an error GetWeather returns it wrapped;
\* otherwise the report is started.
WForecast ==
  /\ call.phase = "forecast"
  /\ LET f == getJSON(ForecastURL(call.loc, call.tempUnit, call.windUnit), call.up.fc)
     IN  IF ~f.err.nil
         THEN call' = [call EXCEPT !.phase = "failed",
                                   !.err = Wrap("forecast", f.err),
                                   !.log = @ \o f.log]
         ELSE call' = [call EXCEPT !.phase = "daily",
                                   !.raw = f.val,
                                   !.info = NewInfo(call.loc, call.units, f.val),
                                   !.log = @ \o f.log]
  /\ UNCHANGED <<cache, cacheMu, clock, pc, req, sweep, stored>>

\* The loop over raw.Daily.Time; an index out of range panics.
WDaily ==
  /\ call.phase = "daily"
  /\ LET daily == DailyLoop(call.raw.Daily, 0, <<>>)
     IN  IF daily.panic
         THEN call' = [call EXCEPT !.phase = "panicked", !.info = NilInfo]
         ELSE call' = [call EXCEPT !.phase = "sun", !.info.Forecast = daily.days]
  /\ UNCHANGED <<cache, cacheMu, clock, pc, req, sweep, stored>>

\* info.Sun.
WSun ==
  /\ call.phase = "sun"
  /\ call' = [call EXCEPT
                !.phase = "hourly",
                !.info.Sun = SunOf(call.raw),
                !.log = @ \o (IF Len(call.raw.Daily.Sunrise) > 0
                                 /\ Len(call.raw.Daily.Sunset) > 0
                              THEN <<LogStep("buildSunBar")>> ELSE <<>>)]
  /\ UNCHANGED <<cache, cacheMu, clock, pc, req, sweep, stored>>

\* info.Hourly; FetchConsensus is entered.
WHourly ==
  /\ call.phase = "hourly"
  /\ call' = [call EXCEPT
                !.phase = "spawn",
                !.info.Hourly = parseHourly(call.raw.Hourly, call.raw.Current.Time),
                !.log = @ \o <<LogStep("parseHourly")>>]
  /\ UNCHANGED <<cache, cacheMu, clock, pc, req, sweep, stored>>

\* info.Consensus is set and GetWeather returns the report.
WReturn ==
  /\ call.phase = "returned"
  /\ \A idx \in ModelIdx : call.fc.go[idx] = "done"
  /\ call' = [call EXCEPT !.phase = "done", !.info.Consensus = call.cons]
  /\ UNCHANGED <<cache, cacheMu, clock, pc, req, sweep, stored>>

NextWeather ==
  \/ WGeocode
  \/ WForecast
  \/ WDaily
  \/ WSun
  \/ WHourly
  \/ GoFetchModel
  \/ \E idx \in ModelIdx : FetchModelReturn(idx)
  \/ \E idx \in ModelIdx : WgDone(idx)
  \/ WgWait
  \/ WReturn

SpecWeather == InitWeather /\ [][NextWeather]_vars

\* ------------------------------------------------------------------ claims

\* cacheSet of handler h runs in this step.
SetStep(h) == pc[h] = "set" /\ pc'[h] = "done"

\* cacheGet of handler h runs in this step.
GetStep(h) == pc[h] = "read" /\ pc'[h] # "read"

\* The cache is at capacity.
Full(m) == Cardinality(DOMAIN m) >= cacheMaxSize

\* A report stored under k whose expiry lies ahead is no longer in the map:
\* it was evicted.
Evicted(k) == stored[k] > clock /\ k \notin DOMAIN cache

\* C1: in every reachable state, under every interleaving of the handlers and
\* the sweep, the cache holds at most cacheMaxSize entries.
C1_SizeBounded == Cardinality(DOMAIN cache) <= cacheMaxSize

\* C1 witness: two handlers are at work, the cache is at capacity and an
\* eviction has made room in it.
C1_Witness ==
  /\ Cardinality(DOMAIN cache) = cacheMaxSize
  /\ \E k \in Keys : Evicted(k)
  /\ \A h \in Handlers : pc[h] # "idle"

\* C2: a cacheSet of an absent key at capacity removes exactly one entry, one
\* of minimum createdAt among the entries present before the call, and
\* leaves every other entry unchanged.
C2_EvictsOldest ==
  [][\A h \in Handlers :
       (SetStep(h) /\ req[h].key \notin DOMAIN cache /\ Full(cache)) =>
         LET gone == (DOMAIN cache) \ (DOMAIN cache')
         IN  /\ Cardinality(gone) = 1
             /\ \A k \in gone : \A j \in DOMAIN cache :
                  cache[k].createdAt <= cache[j].createdAt
             /\ \A j \in (DOMAIN cache) \ gone : cache'[j] = cache[j]
             /\ DOMAIN cache' = ((DOMAIN cache) \ gone) \cup {req[h].key}]_vars

\* C2 witness: a cacheSet has just returned its report to the handler, the
\* cache is at capacity and a report that had not expired was evicted.
C2_Witness ==
  /\ \E h \in Handlers : pc[h] = "done" /\ req[h].via = "GetWeather"
                         /\ req[h].status = StatusOK
                         /\ \E k \in DOMAIN cache : cache[k].info = req[h].info
  /\ Cardinality(DOMAIN cache) = cacheMaxSize
  /\ \E k \in Keys : Evicted(k)

\* C3: a cacheSet of a present key removes no entry, whatever the size of the
\* cache, and replaces that key's entry by the new report with expiry
\* now + TTL.
C3_OverwriteKeepsKeys ==
  [][\A h \in Handlers :
       (SetStep(h) /\ req[h].key \in DOMAIN cache) =>
         /\ DOMAIN cache' = DOMAIN cache
         /\ cache'[req[h].key].info = req[h].info
         /\ cache'[req[h].key].expires = clock + cacheTTL
         /\ \A j \in (DOMAIN cache) \ {req[h].key} : cache'[j] = cache[j]]_vars

\* C3 witness: cacheSet holds the lock at capacity with a report for a key
\* that is present with another report.
C3_Witness ==
  \E h \in Handlers :
    /\ pc[h] = "set"
    /\ req[h].key \in DOMAIN cache
    /\ Full(cache)
    /\ cache[req[h].key].info # req[h].info

\* C4: cacheGet on a key whose entry has expired and is still in the map
\* returns nil (the handler goes on to GetWeather) and leaves the map as it
\* is, the expired entry included.
C4_ExpiredIsAbsent ==
  [][\A h \in Handlers :
       GetStep(h) =>
         /\ cache' = cache
         /\ (req[h].key \in DOMAIN cache /\ cache[req[h].key].expires <= clock)
              => pc'[h] = "fetch"]_vars

\* C4 witness: a lookup has just missed on an entry that is expired and
\* still in the map.
C4_Witness ==
  \E h \in Handlers :
    /\ pc[h] = "fetch"
    /\ req[h].key \in DOMAIN cache
    /\ cache[req[h].key].expires <= clock

\* A sweep pass runs in this step.
SweepStep == sweep.pc = "run" /\ sweep'.pc = "wait"

\* C5: after a sweep pass run at time t no entry that cacheGet treats as
\* expired at t is left, and every entry cacheGet treats as live at t is
\* unchanged.
C5_SweepRemovesExpired ==
  [][SweepStep =>
       /\ \A k \in DOMAIN cache' : cacheGet(cache', k, sweep.now) # NilInfo
       /\ \A k \in DOMAIN cache :
            cacheGet(cache, k, sweep.now) # NilInfo =>
              (k \in DOMAIN cache' /\ cache'[k] = cache[k])]_vars

\* C6: once a report is stored under a key, every later lookup of that key
\* before the report's expiry is served from the cache, whatever was handled
\* in between.
C6_StoredIsServed ==
  [][\A h \in Handlers :
       (GetStep(h) /\ stored[req[h].key] > clock) =>
         (pc'[h] = "done" /\ req'[h].via = "cache")]_vars

\* C6 as amended: once a report is stored under a key, every later lookup of
\* that key that runs before the report's expiry and while the entry is
\* still in the map is answered with that report from the cache, without a
\* GetWeather call.
C6_StoredAndPresentIsServed ==
  [][\A h \in Handlers :
       (GetStep(h) /\ stored[req[h].key] > clock /\ req[h].key \in DOMAIN cache) =>
         /\ pc'[h] = "done"
         /\ req'[h].via = "cache"
         /\ req'[h].info = cache[req[h].key].info
         /\ req'[h].status = StatusOK]_vars

\* C6 witness: a request has been served from the cache while the cache is
\* at capacity with reports stored for other keys.
C6_Witness ==
  \E h \in Handlers :
    /\ pc[h] = "done"
    /\ req[h].via = "cache"
    /\ Cardinality(DOMAIN cache) = cacheMaxSize
    /\ \E k \in DOMAIN cache : stored[k] > clock /\ cache[k].info = req[h].info

\* Who is inside the map: cacheGet between RLock and RUnlock, cacheSet and
\* the sweep pass between Lock and Unlock.
ReadersInMap == { h \in Handlers : pc[h] = "read" }

WritersInMap ==
  { h \in Handlers : pc[h] = "set" }
    \cup (IF sweep.pc = "run" THEN {Sweeper} ELSE {})

\* C7: every access to the map holds cacheMu (a reader the read lock, a
\* writer the write lock); a writer is never inside the map with another
\* writer or with a reader.
C7_LockDiscipline ==
  /\ Cardinality(WritersInMap) <= 1
  /\ WritersInMap # {} => ReadersInMap = {}
  /\ \A h \in ReadersInMap : h \in cacheMu.r /\ cacheMu.w = NoOne
  /\ \A w \in WritersInMap : cacheMu.w = w /\ cacheMu.r = {}

\* C7 witness: two cacheGet calls are inside the map at the same time, while
\* the sweep waits for the write lock.
C7_Witness ==
  /\ Cardinality(ReadersInMap) = 2
  /\ sweep.pc = "lock"

\* The HTTP GETs in a request trace.
Gets(log) == Cardinality({ i \in 1..Len(log) : log[i].op = "GET" })

\* An answer that is a response getJSON gives up on: a status other than 200,
\* or a body that does not decode.
Terminal(r) == r.kind = "http" /\ (r.status # StatusOK \/ ~r.json)

\* What C8 says of one getJSON call: resps are the answers to its GETs, log
\* its request trace, err the error it returned.
RetryDiscipline(resps, log, err) ==
  /\ Gets(log) <= 2
  /\ Gets(log) = 2 <=> resps[1].kind = "net"
  /\ Gets(log) = 1 => (Len(log) = 1 /\ log[1].op = "GET")
  /\ Gets(log) = 2 => (Len(log) = 3 /\ log[1].op = "GET" /\ log[2].op = "sleep"
                                    /\ log[3].op = "GET")
  /\ Terminal(resps[1]) => (~err.nil /\ Gets(log) = 1)
  /\ (resps[1].kind = "net" /\ Terminal(resps[2])) => (~err.nil /\ Gets(log) = 2)

\* The request trace of the forecast call within the trace of GetWeather:
\* what follows the trace of Geocode and is about the forecast URL.
ForecastLog ==
  LET u == ForecastURL(call.geo.loc,
                       IF call.units = "imperial" THEN "fahrenheit" ELSE "celsius",
                       IF call.units = "imperial" THEN "mph" ELSE "kmh")
      IsForecast(e) == e.url = u
  IN  SelectSeq(SubSeq(call.res.log, Len(call.geo.log) + 1, Len(call.res.log)),
                IsForecast)

\* C8: getJSON issues at most two GETs; the second exactly when the first
\* failed at the network level, and after the pause; a non-200 status or an
\* undecodable body ends the call with an error on whichever attempt it
\* came.  Stated of the geocoding call and of the forecast call.
C8_RetryOnlyOnNetwork ==
  /\ call.phase \in {"fetched", "geocoded", "done"} =>
       RetryDiscipline(call.up.geo, call.get.log, call.get.err)
  /\ (call.phase = "done" /\ call.geo.err.nil) =>
       RetryDiscipline(call.up.fc, ForecastLog, call.res.err)

\* C8 witness: the first GET failed at the network level and the second was
\* answered with a status other than 200.
C8_Witness ==
  /\ call.phase = "fetched"
  /\ call.up.geo[1].kind = "net"
  /\ call.up.geo[2].kind = "http" /\ call.up.geo[2].status # StatusOK
  /\ Gets(call.get.log) = 2
  /\ ~call.get.err.nil

\* The answer is a 200 response that decodes.
Decoded(r) == r.kind = "http" /\ r.status = StatusOK /\ r.json

\* C9: when the geocoding service answers with an empty result set, Geocode
\* fails with the city-not-found error, not with the wrapped gateway error;
\* with a non-empty result set it returns the first result and no error.
C9_EmptyIsNotFound ==
  call.phase \in {"geocoded", "done"} =>
    LET a == LastAnswer(call.up.geo)
    IN  /\ (Decoded(a) /\ Len(a.val) = 0) =>
             /\ call.geo.err = Errorf(<<"city", Quote(call.city), "not", "found">>)
             /\ ~Contains(call.geo.err.msg, <<"geocode", ":">>)
        /\ (Decoded(a) /\ Len(a.val) > 0) =>
             /\ call.geo.err.nil
             /\ call.geo.loc = a.val[1]

\* C9 witness: Geocode has failed on an empty result set obtained on the
\* second attempt.
C9_Witness ==
  /\ call.phase = "geocoded"
  /\ call.up.geo[1].kind = "net"
  /\ Decoded(call.up.geo[2]) /\ Len(call.up.geo[2].val) = 0
  /\ ~call.geo.err.nil

\* C10: the handler answers 404 exactly when geocoding returned an empty
\* result set, 400 only for invalid input (none reaches GetWeather), and 502
\* for every network, non-200 or decode failure, whatever text the upstream
\* error carries.
C10_StatusByCause ==
  (call.phase = "done" /\ ~call.res.err.nil) =>
    /\ call.status = StatusNotFound <=> Cause(call.up) = "notfound"
    /\ call.status # StatusBadRequest
    /\ Cause(call.up) \in {"network", "upstream", "decode"} =>
         call.status = StatusBadGateway


\* The five address fields of a decoded answer, in the order they are tried.
AddressFields(val) ==
  <<val.Address.City, val.Address.Town, val.Address.Village,
    val.Address.Municipality, val.Address.County>>

\* A ReverseGeocode call that got a 200 answer that decodes has returned.
ReversedOk ==
  call.phase = "reversed" /\ call.resp.kind = "http"
  /\ call.resp.status = StatusOK /\ call.resp.json

ConsReturned == call.phase = "returned"

\* C14: FetchConsensus starts one fetch per configured model and returns
\* only after all of them have completed; whatever the completion order, the
\* Models list has exactly one reading per configured model, at the model's
\* position and under the model's name, and the statistics are those of the
\* readings as written when the barrier was passed.
C14_AllCompleteBarrier ==
  /\ (call.phase \in { "wait", "returned" }) =>
        \A i \in ModelIdx : call.fc.go[i] # "new"
  /\ ConsReturned =>
       /\ \A i \in ModelIdx : call.fc.go[i] = "done"
       /\ Len(call.fc.order) = Len(forecastModels)
       /\ Len(call.cons.Models) = Len(forecastModels)
       /\ \A i \in ModelIdx :
            /\ call.cons.Models[i].Model = forecastModels[i].Name
            /\ call.cons.Models[i] =
                 fetchModel(forecastModels[i], call.loc, call.tempUnit,
                            call.windUnit, call.models[i]).reading
       /\ call.cons.Models = call.fc.readings
       /\ \E ties \in Ties : call.cons = ConsensusStats(call.fc.readings, ties)

\* The goroutines finished in the reverse of the configured order, the one
\* of the first model failing, and the summary counts the other three.
C14_Witness ==
  /\ ConsReturned
  /\ call.fc.order = <<4, 3, 2, 1>>
  /\ ~call.cons.Models[1].Available
  /\ call.cons.AvailCount = 3

\* FetchConsensus has returned the summary of what the models answered.
Summarised == call.phase = "summarised"

\* What the models answered, read off the answers themselves: model i's
\* call failed, or its answer decoded without a temperature or a humidity.
ModelFailed(i) == FailureOf(LastAnswer(call.models[i])) # "none"

ModelIncomplete(i) ==
  /\ ~ModelFailed(i)
  /\ LET cur == LastAnswer(call.models[i]).val.Current
     IN  ~cur.Temp.set \/ ~cur.Humidity.set

\* The positions of the readings marked available.
AvailableIn(cons) == { i \in DOMAIN cons.Models : cons.Models[i].Available }

\* C15: with no model available FetchConsensus still returns a summary, with
\* AvailCount = 0, AvgTemp = AvgWind = AvgPressure = 0, Spread = 0,
\* AgreePct = 0, Agreement = "Low", and a Models list as long as the list of
\* configured models with every reading marked unavailable.
C15_NoneAvailable ==
  (Summarised /\ \A i \in ModelIdx : ModelFailed(i) \/ ModelIncomplete(i)) =>
    /\ call.cons.AvailCount = 0
    /\ call.cons.AvgTemp = 0 /\ call.cons.AvgWind = 0 /\ call.cons.AvgPressure = 0
    /\ call.cons.Spread = 0
    /\ call.cons.AgreePct = 0
    /\ call.cons.Agreement = "Low"
    /\ Len(call.cons.Models) = Len(forecastModels)
    /\ \A i \in ModelIdx : ~call.cons.Models[i].Available

\* C16: a model whose call fails or whose answer lacks a required number is
\* marked unavailable with a diagnostic that is not empty, and counts neither
\* in AvailCount nor in any statistic; in every reading Available is true
\* exactly when Err is empty, and AvailCount is the number of readings with
\* Available true.
C16_FailedIsUnavailable ==
  Summarised =>
    LET cons == call.cons
        avail == SelectSeq(cons.Models, LAMBDA r : r.Available)
    IN  /\ \A i \in ModelIdx :
             /\ (ModelFailed(i) \/ ModelIncomplete(i)) =>
                  ~cons.Models[i].Available /\ cons.Models[i].Err # <<>>
             /\ ~(ModelFailed(i) \/ ModelIncomplete(i)) => cons.Models[i].Available
             /\ cons.Models[i].Available <=> cons.Models[i].Err = <<>>
        /\ cons.AvailCount = Cardinality(AvailableIn(cons))
        /\ \E ties \in Ties :
             [cons EXCEPT !.Models = <<>>]
               = [ConsensusStats(avail, ties) EXCEPT !.Models = <<>>]

\* One model failed on the network, one answered 500, one answered without a
\* temperature, and the fourth is the one reading of the summary.
C16_Witness ==
  /\ Summarised
  /\ ModelFailed(1) /\ LastAnswer(call.models[1]).kind = "net"
  /\ ModelFailed(2) /\ LastAnswer(call.models[2]).status = 500
  /\ ModelIncomplete(3)
  /\ call.cons.Models[4].Available
  /\ call.cons.AvailCount = 1
  /\ call.cons.AvgTemp = call.cons.Models[4].Temp

\* The sum of f over the positions in S.
RECURSIVE SumOver(_, _)
SumOver(S, f) ==
  IF S = {} THEN 0
  ELSE LET i == CHOOSE x \in S : TRUE IN f[i] + SumOver(S \ {i}, f)

Abs(x) == IF x < 0 THEN -x ELSE x

\* The temperatures, humidities, wind speeds and pressures of the readings.
TempsOf(cons) == [i \in DOMAIN cons.Models |-> cons.Models[i].Temp]

HumiditiesOf(cons) == [i \in DOMAIN cons.Models |-> cons.Models[i].Humidity]

WindsOf(cons) == [i \in DOMAIN cons.Models |-> cons.Models[i].WindSpeed]

PressuresOf(cons) == [i \in DOMAIN cons.Models |-> cons.Models[i].Pressure]

\* v is x (hundredths) given to one decimal.
ToOneDecimal(v, x) == v % 10 = 0 /\ Abs(v - x) <= 5

\* v is the mean of the values f over the positions S, given to one decimal.
MeanToOneDecimal(v, S, f) ==
  v % 10 = 0 /\ 2 * Abs(v * Cardinality(S) - SumOver(S, f)) <= 10 * Cardinality(S)

\* The temperatures 10.0 and 12.0 and nothing else.
TenAndTwelve(cons) ==
  { cons.Models[i].Temp : i \in AvailableIn(cons) } = { 1000, 1200 }
  /\ Cardinality(AvailableIn(cons)) = 2

\* C17: with a model available, MinTemp and MaxTemp are the least and the
\* greatest temperature of the available readings and AvgTemp, AvgWind,
\* AvgPressure, AvgHumidity are the arithmetic means over the available
\* readings only (each as the summary holds it: the floats to one decimal,
\* the humidity as a whole number), so that MinTemp <= AvgTemp <= MaxTemp;
\* 10.0 and 12.0 give MinTemp 10.0, MaxTemp 12.0 and AvgTemp 11.0.
C17_MeansBetweenExtremes ==
  (Summarised /\ AvailableIn(call.cons) # {}) =>
    LET cons == call.cons
        S == AvailableIn(cons)
        n == Cardinality(S)
        sumH == SumOver(S, HumiditiesOf(cons))
    IN  /\ \E i \in S : /\ ToOneDecimal(cons.MinTemp, cons.Models[i].Temp)
                        /\ \A j \in S : cons.Models[i].Temp <= cons.Models[j].Temp
        /\ \E i \in S : /\ ToOneDecimal(cons.MaxTemp, cons.Models[i].Temp)
                        /\ \A j \in S : cons.Models[i].Temp >= cons.Models[j].Temp
        /\ MeanToOneDecimal(cons.AvgTemp, S, TempsOf(cons))
        /\ MeanToOneDecimal(cons.AvgWind, S, WindsOf(cons))
        /\ MeanToOneDecimal(cons.AvgPressure, S, PressuresOf(cons))
        /\ Abs(cons.AvgHumidity) * n <= Abs(sumH)
        /\ Abs(sumH - cons.AvgHumidity * n) < n
        /\ cons.MinTemp <= cons.AvgTemp /\ cons.AvgTemp <= cons.MaxTemp
        /\ TenAndTwelve(cons) =>
             cons.MinTemp = 1000 /\ cons.MaxTemp = 1200 /\ cons.AvgTemp = 1100

\* C18: in every summary returned Spread >= 0; Spread is MaxTemp - MinTemp
\* when AvailCount > 0 and 0 when AvailCount = 0.
C18_SpreadIsMaxLessMin ==
  Summarised =>
    /\ call.cons.Spread >= 0
    /\ call.cons.AvailCount > 0 =>
         call.cons.Spread = call.cons.MaxTemp - call.cons.MinTemp
    /\ call.cons.AvailCount = 0 => call.cons.Spread = 0

\* A summary of several readings that are 12.5 degrees apart.
C18_Witness ==
  /\ Summarised
  /\ call.cons.AvailCount > 1
  /\ call.cons.MinTemp = -250 /\ call.cons.MaxTemp = 1000
  /\ call.cons.Spread = 1250

\* x held between lo and hi.
Clamp(lo, hi, x) == IF x < lo THEN lo ELSE IF x > hi THEN hi ELSE x

\* The label goes with the percentage.
LabelMatches(cons) ==
  /\ cons.Agreement = "High" <=> cons.AgreePct >= 80
  /\ cons.Agreement = "Moderate" <=> (50 <= cons.AgreePct /\ cons.AgreePct < 80)
  /\ cons.Agreement = "Low" <=> cons.AgreePct < 50

\* C19 as stated: with a model available AgreePct is 100 - Spread x 12 held
\* between 0 and 100, and the label is "High" from 80, "Moderate" from 50
\* and "Low" below; a spread of 2.0 gives 76 and "Moderate".
C19_AgreePctExact ==
  (Summarised /\ call.cons.AvailCount > 0) =>
    /\ 100 * call.cons.AgreePct = Clamp(0, 10000, 10000 - 12 * call.cons.Spread)
    /\ call.cons.AgreePct \in 0..100
    /\ LabelMatches(call.cons)
    /\ call.cons.Spread = 200 =>
         call.cons.AgreePct = 76 /\ call.cons.Agreement = "Moderate"

\* C19: with a model available AgreePct is 100 less the whole part of
\* Spread x 12, held between 0 and 100, and the label is "High" from 80,
\* "Moderate" from 50 and "Low" below; a spread of 2.0 gives 76 and
\* "Moderate".
C19_AgreePctWholePoints ==
  (Summarised /\ call.cons.AvailCount > 0) =>
    /\ \E points \in 0..(12 * call.cons.Spread) :
         /\ 100 * points <= 12 * call.cons.Spread
         /\ 12 * call.cons.Spread < 100 * (points + 1)
         /\ call.cons.AgreePct = Clamp(0, 100, 100 - points)
    /\ call.cons.AgreePct \in 0..100
    /\ LabelMatches(call.cons)
    /\ call.cons.Spread = 200 =>
         call.cons.AgreePct = 76 /\ call.cons.Agreement = "Moderate"

\* A spread of 2.0 between the readings gave 76 and "Moderate".
C19_Witness ==
  /\ Summarised
  /\ call.cons.AvailCount > 0
  /\ call.cons.Spread = 200
  /\ call.cons.AgreePct = 76
  /\ call.cons.Agreement = "Moderate"

\* buildSunBar has returned.
Sunned == call.phase = "sunned"

\* C20: for all now, sunrise and sunset, buildSunBar yields SunPositionPct
\* in [0,100]: (now - sunrise) / (sunset - sunrise) x 100 when now lies
\* within daylight (50 at the midpoint, as for 06:00 / 18:00 / 12:00), 0 when
\* now is before sunrise, 100 when now is after sunset, and 0 whenever
\* sunset - sunrise <= 0.
C20_SunPositionInRange ==
  Sunned =>
    LET p == call.sun.SunPositionPct
        daylight == call.sunset.t - call.sunrise.t
        elapsed == call.now.t - call.sunrise.t
    IN  /\ p.den > 0 /\ 0 <= p.num /\ p.num <= 100 * p.den
        /\ (call.now.ok /\ call.sunrise.ok /\ call.sunset.ok) =>
             /\ daylight <= 0 => p.num = 0
             /\ (daylight > 0 /\ elapsed < 0) => p.num = 0
             /\ (daylight > 0 /\ elapsed > daylight) => p.num = 100 * p.den
             /\ (daylight > 0 /\ 0 <= elapsed /\ elapsed <= daylight) =>
                  p.num * daylight = elapsed * 100 * p.den
             /\ (daylight > 0 /\ 2 * elapsed = daylight) => p.num = 50 * p.den

\* Sunrise at 06:00, sunset at 18:00, now 12:00: the position is 50.
C20_Witness ==
  /\ Sunned
  /\ call.sunrise.text = "2024-06-01T06:00"
  /\ call.sunset.text = "2024-06-01T18:00"
  /\ call.now.text = "2024-06-01T12:00"
  /\ call.sun.SunPositionPct.num = 50 * call.sun.SunPositionPct.den
  /\ call.sun.SunriseTime = "06:00"
\* The URLs of the three kinds of request a GetWeather call issues.
GeocodeURLs == { GeocodeURL("Rio") }

ForecastURLs ==
  { ForecastURL(loc, u.tempUnit, u.windUnit) : loc \in { LocUlm, LocRio }, u \in UnitParams }

ModelURLs ==
  { ModelURL(loc, u.tempUnit, u.windUnit, forecastModels[i].Param) :
      loc \in { LocUlm, LocRio }, u \in UnitParams, i \in ModelIdx }

\* The stage of GetWeather an entry of the log belongs to: 1 geocoding,
\* 2 the primary forecast, 3 what is derived from the forecast (sun, hourly)
\* and the consensus fetch.
StageOf(e) ==
  IF e.url \in GeocodeURLs THEN 1
  ELSE IF e.url \in ForecastURLs THEN 2
  ELSE 3

StagesIn(log) == { StageOf(log[i]) : i \in DOMAIN log }

\* The geocoding service answers, in the end, with a place.
GeocodeSucceeds ==
  /\ FailureOf(LastAnswer(call.up.geo)) = "none"
  /\ Len(LastAnswer(call.up.geo).val) > 0

WeatherOver == call.phase \in { "failed", "panicked", "done" }

\* C12: within one GetWeather call geocoding completes before the forecast
\* request is issued, and the forecast completes before sun, hourly and
\* consensus are derived; when geocoding fails no forecast or consensus
\* request is ever issued, when the forecast fails no consensus request is
\* ever issued, and in both cases GetWeather returns an error and no report.
C12_StagesInOrder ==
  /\ \A i, j \in DOMAIN call.log :
       i < j => StageOf(call.log[i]) <= StageOf(call.log[j])
  /\ (2 \in StagesIn(call.log))
       => /\ GeocodeSucceeds
          /\ call.phase # "geocode"
          /\ call.loc = LastAnswer(call.up.geo).val[1]
  /\ (3 \in StagesIn(call.log))
       => /\ Cause(call.up) = "ok"
          /\ call.phase \notin { "geocode", "forecast", "failed" }
          /\ call.raw = LastAnswer(call.up.fc).val
  /\ (Cause(call.up) # "ok" /\ WeatherOver)
       => /\ call.phase = "failed"
          /\ ~call.err.nil
          /\ call.info = NilInfo
          /\ 3 \notin StagesIn(call.log)
  /\ ~GeocodeSucceeds => StagesIn(call.log) \subseteq { 1 }

\* A call that went through all three stages.
C12_Witness ==
  /\ call.phase = "done"
  /\ StagesIn(call.log) = { 1, 2, 3 }
  /\ \E i \in DOMAIN call.log : call.log[i].url \in ModelURLs
  /\ \E i \in DOMAIN call.log : call.log[i].op = "parseHourly"

\* A call whose forecast failed: geocoding was done, nothing followed.
ForecastFailedSeen ==
  /\ call.phase = "failed"
  /\ StagesIn(call.log) = { 1, 2 }

\* C13: whenever geocoding and the primary forecast fetch both succeed,
\* GetWeather returns a report with no error for every combination of
\* per-model outcomes, the failed models being listed as unavailable with a
\* diagnostic.
C13_ReportWheneverForecastSucceeds ==
  (Cause(call.up) = "ok" /\ WeatherOver)
    => /\ call.phase = "done"
       /\ call.err.nil
       /\ call.info # NilInfo
       /\ Len(call.info.Consensus.Models) = Len(forecastModels)
       /\ \A i \in ModelIdx :
            ModelFailed(i) => /\ ~call.info.Consensus.Models[i].Available
                              /\ call.info.Consensus.Models[i].Err # <<>>

\* C13, the part about the consensus fetch: once FetchConsensus is entered
\* the call returns a report with no error, whichever models fail.
ConsensusNeverFatal ==
  (call.phase \in { "spawn", "wait", "returned", "done" })
    => /\ call.err.nil
       /\ call.info # NilInfo
       /\ (call.phase = "done"
             => \A i \in ModelIdx :
                  ModelFailed(i) => ~call.info.Consensus.Models[i].Available)

\* A report returned although every model failed.
AllModelsFailedSeen ==
  /\ call.phase = "done"
  /\ \A i \in ModelIdx : ModelFailed(i)
  /\ call.info.Consensus.AvailCount = 0

\* A call that panicked although geocoding and the forecast succeeded.
PanickedSeen ==
  /\ call.phase = "panicked"
  /\ Cause(call.up) = "ok"

\* C21: the day flag of buildSunBar is true exactly when now lies in the
\* half-open interval [sunrise, sunset): true at now = sunrise, false at
\* now = sunset, false before sunrise and after sunset.
C21_IsDayHalfOpen ==
  (Sunned /\ call.now.ok /\ call.sunrise.ok /\ call.sunset.ok)
    => (call.sun.IsDay <=> (call.sunrise.t <= call.now.t /\ call.now.t < call.sunset.t))

\* What the day flag is: true exactly when now lies strictly between sunrise
\* and sunset.
IsDayStrictlyBetween ==
  (Sunned /\ call.now.ok /\ call.sunrise.ok /\ call.sunset.ok)
    => (call.sun.IsDay <=> (call.sunrise.t < call.now.t /\ call.now.t < call.sunset.t))

\* The call at the moment of sunrise: the flag is false.
NightAtSunriseSeen ==
  /\ Sunned
  /\ call.now.text = "2024-06-01T06:00"
  /\ call.sunrise.text = "2024-06-01T06:00"
  /\ call.sunset.text = "2024-06-01T18:00"
  /\ ~call.sun.IsDay

\* parseHourly has returned.
Houred == call.phase = "houred"

\* The positions of the hourly block whose timestamp is in the layout and
\* at or after the current time, and the k-th of them.
KeptHours ==
  { i \in 1..Len(call.h.Time) :
      LET p == ParseInLocation(call.h.Time[i]) IN p.ok /\ p.t >= call.now.t }

KeptHour(k) ==
  CHOOSE i \in KeptHours : Cardinality({ j \in KeptHours : j <= i }) = k

HourAt(k) == ParseInLocation(call.h.Time[KeptHour(k)]).t

Dailied == call.phase = "dailied"

\* The smallest of a set of numbers.
Least(S) == CHOOSE n \in S : \A m \in S : n <= m

\* The lengths of the time array and of the four field arrays every day
\* needs, and the same with the precipitation array.
AlignedLengths ==
  { Len(call.daily.Time), Len(call.daily.WeatherCode), Len(call.daily.TempMax),
    Len(call.daily.TempMin), Len(call.daily.WindMax) }

\* C23: when a field array of the daily block is shorter than its time
\* array, GetWeather builds the daily sequence up to the shortest alignment
\* and stops early and silently, neither failing nor aborting the report,
\* for every combination of field lengths.  (A short precipitation array
\* may stop the sequence or leave the probability absent.)
C23_StopsEarlySilently ==
  Dailied =>
    /\ ~call.panic
    /\ Len(call.Forecast) \in
         { Least(AlignedLengths),
           Least(AlignedLengths \cup { Len(call.daily.PrecipProbMax) }) }
    /\ \A k \in 1..Len(call.Forecast) : call.Forecast[k].Date = call.daily.Time[k]

\* What the loop does: it stops silently at the end of weather_code or
\* temperature_2m_max, and panics when temperature_2m_min or
\* wind_speed_10m_max ends before those.
DailyStopsOrPanics ==
  Dailied =>
    LET guarded == Least({ Len(call.daily.Time), Len(call.daily.WeatherCode),
                           Len(call.daily.TempMax) })
        bare == Least({ Len(call.daily.TempMin), Len(call.daily.WindMax) })
    IN  /\ call.panic <=> bare < guarded
        /\ ~call.panic => Len(call.Forecast) = guarded

\* Five days, the minimum temperatures of three: the loop panics at the
\* fourth day.
DailyPanicSeen ==
  /\ Dailied
  /\ Len(call.daily.Time) = 5
  /\ Len(call.daily.WeatherCode) = 5
  /\ Len(call.daily.TempMax) = 5
  /\ Len(call.daily.TempMin) = 3
  /\ call.panic

UnitsOfKey(k) ==
  CHOOSE u \in Units : \E c \in RawCities : k = ToLower(TrimSpace(c)) \o "|" \o u

\* A report whose unit fields are those of the unit system u.
UnitsMatch(info, u) ==
  IF u = "imperial"
  THEN info.TempUnit = "°F" /\ info.WindUnit = "mph"
  ELSE info.TempUnit = "°C" /\ info.WindUnit = "km/h"

\* The URLs of the requests of a GetWeather call for a place that ask the
\* upstream for the unit system u.
URLsAsking(city, u) ==
  LET tempUnit == IF u = "imperial" THEN "fahrenheit" ELSE "celsius"
      windUnit == IF u = "imperial" THEN "mph" ELSE "kmh"
  IN  { GeocodeURL(city) }
      \cup { ForecastURL(loc, tempUnit, windUnit) : loc \in { LocUlm, LocRio } }
      \cup { ModelURL(loc, tempUnit, windUnit, forecastModels[i].Param) :
               loc \in { LocUlm, LocRio }, i \in DOMAIN forecastModels }

\* One step of a handler, and the cache after it, as C25 has them.
UnitsKept ==
  /\ \A h \in Handlers :
       /\ (pc[h] = "fetch" /\ pc'[h] = "set") =>
            /\ UnitsMatch(req'[h].info, req[h].units)
            /\ \A o \in Outcomes[req[h].city, req[h].units] :
                 (~o.failed /\ o.info = req'[h].info) =>
                   \A i \in DOMAIN o.log :
                     o.log[i].op \in { "GET", "sleep" }
                       => o.log[i].url \in URLsAsking(req[h].city, req[h].units)
       /\ (pc[h] = "set" /\ pc'[h] = "done") =>
            /\ req'[h].status = StatusOK
            /\ UnitsMatch(req'[h].info, req[h].units)
            /\ cache'[req[h].key].info = req'[h].info
       /\ (pc[h] = "read" /\ pc'[h] = "done") =>
            /\ req'[h].status = StatusOK
            /\ UnitsMatch(req'[h].info, req[h].units)
  /\ \A k \in DOMAIN cache' : UnitsMatch(cache'[k].info, UnitsOfKey(k))

\* C25: every report delivered for a request with unit system u, freshly
\* built or served from the cache, has TempUnit and WindUnit matching u
\* (imperial: °F and mph; otherwise °C and km/h), the forecast and consensus
\* requests that produced it asked the upstream for the same unit system,
\* and every cache entry under a key ending in |u holds a report whose unit
\* fields match u.
C25_UnitsConsistent == [][UnitsKept]_vars

\* The same place cached under both unit systems, and an imperial report
\* served from the cache.
C25_Witness ==
  /\ "rio|metric" \in DOMAIN cache
  /\ "rio|imperial" \in DOMAIN cache
  /\ cache["rio|metric"].info.TempUnit = "°C"
  /\ cache["rio|imperial"].info.TempUnit = "°F"
  /\ \E h \in Handlers :
       /\ pc[h] = "done"
       /\ req[h].via = "cache"
       /\ req[h].info.WindUnit = "mph"

\* One step as C26 has it: a handler holding a place name longer than 100
\* characters has answered 400 without a report, straight from reading the
\* request, and that step took no lock and left the cache as it was.
LongNameStep ==
  \A h \in Handlers :
    Len(req'[h].city) > 100 =>
      /\ pc'[h] = "done"
      /\ req'[h].status = StatusBadRequest
      /\ req'[h].info = NilInfo
      /\ req'[h].via = ""
      /\ req'[h].key = ""
      /\ pc[h] \in { "idle", "done" }
      /\ pc[h] = "idle" => (cache' = cache /\ cacheMu' = cacheMu /\ stored' = stored)

\* C26: a GET or HEAD request whose place name is longer than 100
\* characters is rejected with 400 before any network call: the handler does
\* no cache lookup, no GetWeather call and no cache write for it, and the
\* cache is unchanged.
C26_LongNameRejected == [][LongNameStep]_vars

\* A request with a name of 101 characters has been rejected while the cache
\* holds a report.
C26_Witness ==
  /\ DOMAIN cache # {}
  /\ \E h \in Handlers :
       /\ pc[h] = "done"
       /\ Len(req[h].city) = 101
       /\ req[h].status = StatusBadRequest

\* The public DNS servers.
PublicServers == { PublicDNS[i] : i \in DOMAIN PublicDNS }

\* C27: for every name resolution of gateway traffic a public DNS server
\* (8.8.8.8, 1.1.1.1, 8.8.4.4) is contacted only after the system resolver
\* has been tried and has failed, and the policy applies to all gateway
\* traffic, the consensus model fetches included: there too a failure of the
\* system resolver is followed by the public servers.
C27_PublicOnlyAfterSystemFailed ==
  /\ \A i \in DOMAIN call.dialled :
       call.dialled[i].server \in PublicServers
         => \E j \in 1..(i - 1) : /\ call.dialled[j].server = SystemDNS
                                  /\ ~call.dialled[j].ok
  /\ (call.phase = "done" /\ ~call.up[SystemDNS])
       => \E i \in DOMAIN call.dialled : call.dialled[i].server \in PublicServers

\* What the resolvers do: the resolver of NewClient contacts the public
\* servers first, in their order, and the system's server only when none of
\* them can be dialled; consensusClient contacts the system's server only.
PublicFirst ==
  call.phase = "done" =>
    IF call.client = "client"
    THEN /\ call.dialled[1].server = PublicDNS[1]
         /\ \A i \in DOMAIN call.dialled :
              call.dialled[i].server = SystemDNS
                => /\ i = Len(PublicDNS) + 1
                   /\ \A j \in 1..(i - 1) : ~call.dialled[j].ok
    ELSE /\ Len(call.dialled) = 1
         /\ call.dialled[1].server = SystemDNS

\* The first server contacted is 8.8.8.8 although the system's server
\* answers.
PublicFirstSeen ==
  /\ call.phase = "done"
  /\ call.client = "client"
  /\ call.up[SystemDNS]
  /\ call.conn = "8.8.8.8:53"
  /\ Len(call.dialled) = 1

\* A consensus fetch whose name resolution fails at the system's server and
\* goes nowhere else.
ConsensusNoFallbackSeen ==
  /\ call.phase = "done"
  /\ call.client = "consensusClient"
  /\ ~call.up[SystemDNS]
  /\ call.up["8.8.8.8:53"]
  /\ call.conn = ""

\* C28: every cache entry satisfies expires = createdAt + TTL when cacheSet
\* stores it and for as long as it stays in the cache, so the entry with the
\* oldest creation time is also the one that expires first.
C28_ExpiresIsCreatedPlusTTL ==
  \A k \in DOMAIN cache :
    /\ cache[k].expires = cache[k].createdAt + cacheTTL
    /\ \A j \in DOMAIN cache :
         cache[k].createdAt < cache[j].createdAt => cache[k].expires <= cache[j].expires

\* What holds of the two readings of the clock: createdAt is read after the
\* instant expires is computed from, so expires is at most createdAt + TTL;
\* and an entry created before another does not expire after it.
ExpiresAtMostCreatedPlusTTL ==
  \A k \in DOMAIN cache :
    /\ cache[k].expires <= cache[k].createdAt + cacheTTL
    /\ \A j \in DOMAIN cache :
         cache[k].createdAt < cache[j].createdAt => cache[k].expires <= cache[j].expires

\* An entry stored while the clock advanced between the two readings.
DriftSeen ==
  \E k \in DOMAIN cache : cache[k].expires < cache[k].createdAt + cacheTTL

\* GetWeather fails in this step of handler h.
FailStep(h) == pc[h] = "fetch" /\ pc'[h] = "done"

\* The reports GetWeather returns without an error.
GoodReports ==
  UNION { { o.info : o \in { x \in Outcomes[c, u] : ~x.failed } } : c \in Places, u \in Units }

\* One step as C29 has it.
FailureLeavesCache ==
  /\ \A h \in Handlers :
       /\ FailStep(h) =>
            /\ cache' = cache
            /\ stored' = stored
            /\ req'[h].info = NilInfo
            /\ req'[h].status \in { StatusNotFound, StatusBadRequest, StatusBadGateway }
       /\ SetStep(h) =>
            /\ req[h].via = "GetWeather"
            /\ req[h].info \in GoodReports
            /\ cache'[req[h].key].info = req[h].info
       /\ (GetStep(h) /\ req[h].key \notin DOMAIN cache) => pc'[h] = "fetch"
  /\ \A k \in DOMAIN cache' : cache'[k].info \in GoodReports

\* C29: a request whose GetWeather call fails (not found, network, upstream
\* or decode error) leaves the cache unchanged; cacheSet is called only
\* after GetWeather returned a report with no error, so no cache entry holds
\* a nil or failed report, and a later request for a key that is not in the
\* cache invokes the pipeline again.
C29_FailureLeavesCache == [][FailureLeavesCache]_vars

\* A request has failed with 502 while the cache holds a report and none
\* under the key asked for.
C29_Witness ==
  /\ DOMAIN cache # {}
  /\ \E h \in Handlers :
       /\ pc[h] = "done"
       /\ req[h].via = "GetWeather"
       /\ req[h].status = StatusBadGateway
       /\ req[h].info = NilInfo

\* C30: whenever ReverseGeocode returns without an error the place name it
\* returns is non-empty, for every combination of address fields and
\* display_name in the upstream response, a display_name that begins with a
\* comma included.
C30_NameNonEmpty ==
  (call.phase = "reversed" /\ call.res.err.nil) => call.res.name # <<>>

\* What ReverseGeocode does return: an empty name without an error exactly
\* when the five address fields are empty and display_name begins with a
\* comma.
EmptyNameOnlyBeforeComma ==
  (call.phase = "reversed" /\ call.res.err.nil) =>
    (call.res.name = <<>>
       <=> /\ \A i \in 1..5 : AddressFields(call.resp.val)[i] = <<>>
           /\ call.resp.val.DisplayName # <<>>
           /\ call.resp.val.DisplayName[1] = ",")

\* The five address fields empty and display_name ", DE": the empty name,
\* and no error.
EmptyNameSeen ==
  /\ ReversedOk
  /\ call.resp.val.DisplayName = <<",", " ", "D", "E">>
  /\ call.res.err.nil
  /\ call.res.name = <<>>

====
